---- MODULE Spec2Model ----
(***************************************************************************)
(* Verification model of the productivity backend: the task timer state    *)
(* machine (app/crud.py), the calendar conflict check                      *)
(* (app/routers/calendar.py, app/routers/habits.py) and the challenge      *)
(* lifecycle with its expiry sweep (app/routers/challenges.py,             *)
(* app/utils/challenge_scheduler.py).                                      *)
(*                                                                         *)
(* Time is counted in clock ticks, TicksPerSecond ticks to the second, so  *)
(* that the truncations int(total_seconds()) of the code are visible.      *)
(* A nullable column is a sequence of length 0 (NULL) or 1 (the value).    *)
(***************************************************************************)
EXTENDS Integers, Sequences, FiniteSets, TLC

VARIABLES
    now,        \* datetime.utcnow(), in ticks
    tasks,      \* table tasks: id -> row
    taskRet,    \* what the last task operation returned
    events,     \* table calendar_events: id -> row
    calRet,     \* what the last calendar operation returned
    habits,     \* table habits: id -> row
    habitSeq,   \* the last id the habits table gave out
    habitUpdates,   \* how many update_habit requests have been served
    habitRet,   \* what the last habit operation returned
    sessionAutoflush,   \* whether the sessions of SessionLocal flush before a query
    habitReq,       \* the habit request between two of its commits: where it is
    maintainRun,    \* the maintainer between its reads and its commit: what it added
    challenges,     \* table challenges (each row with its quiz): id -> row
    challengeSeq,   \* the last id the challenges table gave out
    participants,   \* table challenge_participants, in id order
    userStats,      \* the challenge counters of table users: id -> counters
    chalRet,        \* what the last challenge operation returned
    activation_codes,   \* table activation_codes: code -> row
    subscriptions,      \* the subscription columns of table users: id -> columns
    activateReq,        \* the activate_subscription request of each user: where it is
    dbIsolation         \* what the database does with an update of a row changed since it was read

vars == <<now, tasks, taskRet, events, calRet, habits, habitSeq, habitUpdates, habitRet,
          sessionAutoflush, habitReq, maintainRun, challenges, challengeSeq, participants, userStats, chalRet,
          activation_codes, subscriptions, activateReq, dbIsolation>>

taskVars == <<tasks, taskRet>>
raceVars == <<habitReq, maintainRun>>
habitVars == <<habits, habitSeq, habitUpdates, habitRet, sessionAutoflush, raceVars>>
calVars == <<events, calRet, habitVars>>
subVars == <<activation_codes, subscriptions, activateReq, dbIsolation>>
chalVars == <<challenges, challengeSeq, participants, userStats, chalRet, subVars>>

----------------------------------------------------------------------------
(* Bounds of the model *)

TicksPerSecond == 2
MaxTasks == 2
MaxSubTicks == 2
MaxDays == 1

MaxEvents == 2
MaxCalSlots == 2
MaxChallenges == 1
MaxChalTicks == 1
MaxAnswers == 2
MaxHabits == 1
MaxHabitDays == 2
MaxHabitUpdates == 1

(* Program constants *)

SecondsPerMinute == 60
ShortMinMinutes == 1
ShortMaxMinutes == 10
GraceSeconds == 300
SilverBronzeThreshold == 10
UnsetTimeKey == 999999

SecondsPerHour == 3600
SecondsPerDay == 86400
IncompleteGraceSeconds == 3600

DailyLookaheadDays == 90
WeeklyLookaheadDays == 365
MonthlyLookaheadDays == 1095

Users == {1, 2}

None == << >>
Some(x) == <<x>>
IsNone(o) == o = << >>
IsSome(o) == o # << >>
Val(o) == o[1]

DayTicks == SecondsPerDay * TicksPerSecond

\* datetime.date(): the calendar day a tick falls on
DateOf(t) == t \div DayTicks

\* int(x) of Python truncates toward zero
TruncDiv(a, b) == IF a >= 0 THEN a \div b ELSE -((-a) \div b)

\* int(timedelta.total_seconds()) for a difference of d ticks
IntSeconds(d) == TruncDiv(d, TicksPerSecond)

Max(a, b) == IF a >= b THEN a ELSE b

\* every user id the challenge tables can name
AllUsers == 1..(SilverBronzeThreshold + 2)

ZeroStats ==
    [gold_cups |-> 0, silver_cups |-> 0, bronze_cups |-> 0, challenges_count |-> 0]


NoTasks ==
    /\ tasks = << >>
    /\ taskRet = [op |-> "none", result |-> "none"]

\* a user without a subscription, a user who has sent no activation request
NoSubscription == [plan |-> None, is_premium |-> FALSE, expires_at |-> None]
NoActivation == [pc |-> "idle", code |-> "", plan_type |-> "", result |-> "none"]

\* no activation code has been imported, nobody has subscribed
NoActivations ==
    /\ activation_codes = [c \in {} |-> 0]
    /\ subscriptions = [u \in Users |-> NoSubscription]
    /\ activateReq = [u \in Users |-> NoActivation]
    /\ dbIsolation = "read_committed"

NoChallenges ==
    /\ challenges = [c \in {} |-> 0]
    /\ challengeSeq = 0
    /\ participants = << >>
    /\ userStats = [u \in AllUsers |-> ZeroStats]
    /\ chalRet = [op |-> "none", result |-> "none"]
    /\ NoActivations

\* no calendar operation has returned yet
NoCalRet ==
    [op |-> "none", user_id |-> 0, start_time |-> 0, end_time |-> 0,
     exclude_event_id |-> None, result |-> "none", conflicts |-> {}]

\* no habit request and no run of the maintainer is under way
NoRequest == [pc |-> "idle", habit_id |-> 0]
NoRun == [pc |-> "idle", added |-> << >>]

\* no habit has been created yet
NoHabitRows ==
    /\ habits = [h \in {} |-> 0]
    /\ habitSeq = 0
    /\ habitUpdates = 0
    /\ habitRet = [op |-> "none", result |-> "none"]
    /\ habitReq = NoRequest
    /\ maintainRun = NoRun

\* no habit, in the specifications whose routes add no event to a session
\* before a query and so never read the session's setting
NoHabits == NoHabitRows /\ sessionAutoflush = FALSE

----------------------------------------------------------------------------
(* Task timer state machine: app/crud.py *)

\* inputs of create_user_task: estimated_hours in thousandths of an hour
\* (0.001 h = 3.6 s), due_date as a calendar day (a task due on day 0 is due
\* today until the clock passes midnight, and on another day afterwards)
EstimatedMilliHours == {1}
DueDates == {Some(d) : d \in 0..(MaxDays - 1)}

TaskIds == DOMAIN tasks

\* initial_duration_seconds = int(task.estimated_hours * 3600)
InitialDurationSeconds(milliHours) == TruncDiv(milliHours * SecondsPerHour, 1000)

\* the rows get_active_task's filter matches; .first() returns one of them,
\* in an order the query does not fix
ActiveTaskCandidates(user_id) ==
    {i \in TaskIds : /\ tasks[i].owner_id = user_id
                     /\ tasks[i].completed = FALSE
                     /\ IsSome(tasks[i].due_date)
                     /\ Val(tasks[i].due_date) = DateOf(now)}

get_active_task(user_id) ==
    IF ActiveTaskCandidates(user_id) = {}
    THEN {None}
    ELSE {Some(i) : i \in ActiveTaskCandidates(user_id)}

create_user_task(user_id, milliHours, due) ==
    /\ Len(tasks) < MaxTasks
    /\ tasks' = Append(tasks,
                  [owner_id |-> user_id,
                   status |-> "NOT_STARTED",
                   completed |-> FALSE,
                   due_date |-> due,
                   estimated_hours |-> milliHours,
                   initial_duration_seconds |-> InitialDurationSeconds(milliHours),
                   remaining_time_seconds |-> InitialDurationSeconds(milliHours),
                   time_spent_seconds |-> 0,
                   is_active |-> FALSE,
                   start_time |-> None])
    /\ taskRet' = [op |-> "create_user_task", result |-> "ok"]
    /\ UNCHANGED <<now, calVars, chalVars>>

\* a seed that keeps the remaining time of a TO_DO task
NewRemainingTimeKeepsToDo(task) ==
    IF task.status = "INCOMPLETE" THEN IncompleteGraceSeconds
    ELSE IF task.remaining_time_seconds <= 0
         THEN task.initial_duration_seconds
         ELSE task.remaining_time_seconds

\* the remaining-time seed of start_task_timer
NewRemainingTime(task) ==
    IF task.status = "INCOMPLETE" THEN IncompleteGraceSeconds
    ELSE IF task.status = "TO_DO" \/ task.remaining_time_seconds <= 0
         THEN task.initial_duration_seconds
         ELSE task.remaining_time_seconds

StartedTask(task) ==
    [task EXCEPT !.is_active = TRUE,
                 !.start_time = Some(now),
                 !.status = "IN_PROGRESS",
                 !.remaining_time_seconds = NewRemainingTime(task)]

StartResult(task_id, user_id, active_task) ==
    IF task_id \notin TaskIds \/ tasks[task_id].owner_id # user_id THEN "none"
    ELSE IF IsSome(active_task) /\ Val(active_task) # task_id THEN "error_running"
    ELSE IF tasks[task_id].status = "COMPLETED" THEN "error_completed"
    ELSE "ok"

start_task_timer(task_id, user_id) ==
    \E active_task \in get_active_task(user_id) :
        LET res == StartResult(task_id, user_id, active_task) IN
        /\ tasks' = IF res = "ok"
                    THEN [tasks EXCEPT ![task_id] = StartedTask(@)]
                    ELSE tasks
        /\ taskRet' = [op |-> "start_task_timer", result |-> res]
        /\ UNCHANGED <<now, calVars, chalVars>>

StopResult(task_id, user_id) ==
    IF task_id \notin TaskIds \/ tasks[task_id].owner_id # user_id THEN "none"
    ELSE IF ~tasks[task_id].is_active THEN "none"
    ELSE "ok"

\* int(elapsed_time) of stop_task_timer
ElapsedSeconds(task) == IntSeconds(now - Val(task.start_time))

\* StoppedTask without the floor at 0
StoppedTaskNoFloor(task) ==
    [task EXCEPT !.time_spent_seconds = @ + ElapsedSeconds(task),
                 !.remaining_time_seconds = @ - ElapsedSeconds(task),
                 !.is_active = FALSE,
                 !.start_time = None]

StoppedTask(task) ==
    [task EXCEPT !.time_spent_seconds = @ + ElapsedSeconds(task),
                 !.remaining_time_seconds = Max(0, @ - ElapsedSeconds(task)),
                 !.is_active = FALSE,
                 !.start_time = None]

stop_task_timer(task_id, user_id) ==
    LET res == StopResult(task_id, user_id) IN
    /\ tasks' = IF res = "ok"
                THEN [tasks EXCEPT ![task_id] = StoppedTask(@)]
                ELSE tasks
    /\ taskRet' = [op |-> "stop_task_timer", result |-> res]
    /\ UNCHANGED <<now, calVars, chalVars>>

FoundResult(task_id, user_id) ==
    IF task_id \notin TaskIds \/ tasks[task_id].owner_id # user_id THEN "none"
    ELSE "ok"

\* a completion that stops the timer of a running task first
CompletedTaskStopped(task) ==
    [(IF task.is_active THEN StoppedTask(task) ELSE task)
        EXCEPT !.status = "COMPLETED", !.completed = TRUE]

\* the row as complete_task leaves it
CompletedTask(task) ==
    [task EXCEPT !.status = "COMPLETED", !.completed = TRUE]

complete_task(task_id, user_id) ==
    LET res == FoundResult(task_id, user_id) IN
    /\ tasks' = IF res = "ok"
                THEN [tasks EXCEPT ![task_id] = CompletedTask(@)]
                ELSE tasks
    /\ taskRet' = [op |-> "complete_task", result |-> res]
    /\ UNCHANGED <<now, calVars, chalVars>>

mark_task_incomplete(task_id, user_id) ==
    LET res == FoundResult(task_id, user_id) IN
    /\ tasks' = IF res = "ok"
                THEN [tasks EXCEPT ![task_id] =
                        [@ EXCEPT !.status = "INCOMPLETE", !.completed = FALSE]]
                ELSE tasks
    /\ taskRet' = [op |-> "mark_task_incomplete", result |-> res]
    /\ UNCHANGED <<now, calVars, chalVars>>

\* the rows end_of_day_cleanup selects
tasks_to_mark_incomplete ==
    {i \in TaskIds : /\ tasks[i].status \in {"TO_DO", "IN_PROGRESS"}
                     /\ tasks[i].is_active = FALSE}

end_of_day_cleanup ==
    /\ tasks' = [i \in TaskIds |->
                    IF i \in tasks_to_mark_incomplete
                    THEN [(IF tasks[i].is_active THEN StoppedTask(tasks[i]) ELSE tasks[i])
                            EXCEPT !.status = "INCOMPLETE"]
                    ELSE tasks[i]]
    /\ taskRet' = [op |-> "end_of_day_cleanup", result |-> "ok"]
    /\ UNCHANGED <<now, calVars, chalVars>>

\* the wall clock between two requests: a tick or a day passes
TaskClock ==
    /\ \/ /\ now % DayTicks < MaxSubTicks
          /\ now' = now + 1
       \/ /\ now \div DayTicks < MaxDays
          /\ now' = now + DayTicks
    /\ UNCHANGED <<taskVars, calVars, chalVars>>

TaskRequestIds == 1..MaxTasks

Init ==
    /\ now = 0
    /\ NoTasks
    /\ events = << >>
    /\ calRet = NoCalRet
    /\ NoHabits
    /\ NoChallenges

Next ==
    \/ \E u \in Users, m \in EstimatedMilliHours, d \in DueDates :
          create_user_task(u, m, d)
    \/ \E t \in TaskRequestIds, u \in Users : start_task_timer(t, u)
    \/ \E t \in TaskRequestIds, u \in Users : stop_task_timer(t, u)
    \/ \E t \in TaskRequestIds, u \in Users : complete_task(t, u)
    \/ \E t \in TaskRequestIds, u \in Users : mark_task_incomplete(t, u)
    \/ end_of_day_cleanup
    \/ TaskClock

Spec == Init /\ [][Next]_vars

----------------------------------------------------------------------------
(* Tasks the client edits: update_task of app/crud.py with the status,       *)
(* completed, due_date and estimated_hours fields of TaskUpdate. A due_date  *)
(* is a calendar day at 00:00, estimated_hours are thousandths of an hour.   *)

\* update_item: the fields the request has set are assigned
UpdatedTask(task, task_in) ==
    [task EXCEPT !.status = IF IsSome(task_in.status) THEN Val(task_in.status) ELSE @,
                 !.completed = IF IsSome(task_in.completed)
                               THEN Val(task_in.completed) ELSE @,
                 !.due_date = IF IsSome(task_in.due_date) THEN task_in.due_date ELSE @,
                 !.estimated_hours = IF IsSome(task_in.estimated_hours)
                                     THEN Val(task_in.estimated_hours) ELSE @]

\* timedelta(hours = estimated_hours), in seconds
HoursSeconds(milliHours) == (milliHours * SecondsPerHour) \div 1000

\* the calendar event of the task as update_task leaves it: moved to the new
\* due_date, as long as the new estimated_hours
RescheduledEvent(event, task_in) ==
    LET new_start_time == IF IsSome(task_in.due_date)
                          THEN Val(task_in.due_date) * SecondsPerDay
                          ELSE event.start_time
        new_duration == IF IsSome(task_in.estimated_hours)
                        THEN HoursSeconds(Val(task_in.estimated_hours))
                        ELSE event.end_time - event.start_time
    IN IF IsSome(task_in.due_date) \/ IsSome(task_in.estimated_hours)
       THEN [event EXCEPT !.start_time = new_start_time,
                          !.end_time = new_start_time + new_duration]
       ELSE event

\* the rows CalendarEvent.task_id == task_id; .first() returns one of them
EventsOfTask(task_id) == {i \in DOMAIN events : events[i].task_id = Some(task_id)}

UpdateResult(task_id, user_id) ==
    IF task_id \notin TaskIds \/ tasks[task_id].owner_id # user_id THEN "none"
    ELSE IF tasks[task_id].completed THEN "completed"
    ELSE "ok"

update_task(task_id, user_id, task_in) ==
    LET res == UpdateResult(task_id, user_id) IN
    /\ tasks' = IF res = "ok"
                THEN [tasks EXCEPT ![task_id] = UpdatedTask(@, task_in)]
                ELSE tasks
    /\ IF res = "ok" /\ EventsOfTask(task_id) # {}
       THEN \E calendar_event \in EventsOfTask(task_id) :
               events' = [events EXCEPT ![calendar_event] = RescheduledEvent(@, task_in)]
       ELSE events' = events
    /\ taskRet' = [op |-> "update_task", result |-> res]
    /\ UNCHANGED <<now, calRet, habitVars, chalVars>>

\* the requests: the status set to TO_DO, the completed box ticked
NoTaskUpdate ==
    [status |-> None, completed |-> None, due_date |-> None, estimated_hours |-> None]

TaskUpdates ==
    {[NoTaskUpdate EXCEPT !.status = Some("TO_DO")],
     [NoTaskUpdate EXCEPT !.completed = Some(TRUE)]}

\* the tasks of one user, edited as well
NextSeed ==
    \/ \E m \in EstimatedMilliHours, d \in DueDates : create_user_task(1, m, d)
    \/ \E t \in TaskRequestIds : start_task_timer(t, 1)
    \/ \E t \in TaskRequestIds : stop_task_timer(t, 1)
    \/ \E t \in TaskRequestIds : complete_task(t, 1)
    \/ \E t \in TaskRequestIds : mark_task_incomplete(t, 1)
    \/ \E t \in TaskRequestIds, task_in \in TaskUpdates : update_task(t, 1, task_in)
    \/ end_of_day_cleanup
    \/ TaskClock

SpecSeed == Init /\ [][NextSeed]_vars

----------------------------------------------------------------------------
(* Calendar conflict check: app/routers/calendar.py, app/routers/habits.py. *)
(* Calendar datetimes are counted in seconds.                               *)

EventIds == DOMAIN events

\* (end_time - start_time).total_seconds() / 60 compared with the bounds of
\* the short-event exemption, 1 <= duration_minutes <= 10
IsShortDuration(start_time, end_time) ==
    /\ ShortMinMinutes * SecondsPerMinute <= end_time - start_time
    /\ end_time - start_time <= ShortMaxMinutes * SecondsPerMinute

\* IsLongEvent keeping a candidate of exactly 10 minutes too
IsLongEventInclusive(event) ==
    event.end_time - event.start_time >= ShortMaxMinutes * SecondsPerMinute

\* the filter that keeps a candidate: its duration_minutes > 10
IsLongEvent(event) ==
    event.end_time - event.start_time > ShortMaxMinutes * SecondsPerMinute

\* OverlapsQuery without its third shape (new contains existing)
OverlapsQueryNoContain(event, start_time, end_time) ==
    \/ (event.start_time <= start_time /\ event.end_time > start_time)
    \/ (event.start_time < end_time /\ event.end_time >= end_time)

\* the or_(...) of the overlap query
OverlapsQuery(event, start_time, end_time) ==
    \/ (event.start_time <= start_time /\ event.end_time > start_time)
    \/ (event.start_time < end_time /\ event.end_time >= end_time)
    \/ (event.start_time >= start_time /\ event.end_time <= end_time)

\* the conflicts list of validate_schedule_time
ScheduleConflicts(user_id, start_time, end_time, exclude_event_id) ==
    {i \in EventIds : /\ events[i].user_id = user_id
                      /\ OverlapsQuery(events[i], start_time, end_time)
                      /\ (IsSome(exclude_event_id) => i # Val(exclude_event_id))
                      /\ IsLongEvent(events[i])}

\* the conflicts list of check_habit_conflicts
HabitConflicts(user_id, start_time, end_time) ==
    {i \in EventIds : /\ events[i].user_id = user_id
                      /\ OverlapsQuery(events[i], start_time, end_time)
                      /\ IsLongEvent(events[i])}

\* start_time < datetime.utcnow()
InPast(start_time) == start_time * TicksPerSecond < now

\* how validate_schedule_time ends: "past" and "conflict" are its two
\* ValueErrors, "ok" its plain return
ValidateResult(user_id, start_time, end_time, exclude_event_id) ==
    IF InPast(start_time) THEN "past"
    ELSE IF IsShortDuration(start_time, end_time) THEN "ok"
    ELSE IF ScheduleConflicts(user_id, start_time, end_time, exclude_event_id) # {}
         THEN "conflict"
         ELSE "ok"

CheckHabitResult(user_id, start_time, end_time) ==
    IF IsShortDuration(start_time, end_time) THEN "ok"
    ELSE IF HabitConflicts(user_id, start_time, end_time) # {} THEN "conflict"
    ELSE "ok"

validate_schedule_time(user_id, start_time, end_time, exclude_event_id) ==
    LET res == ValidateResult(user_id, start_time, end_time, exclude_event_id) IN
    /\ calRet' = [op |-> "validate_schedule_time",
                  user_id |-> user_id,
                  start_time |-> start_time,
                  end_time |-> end_time,
                  exclude_event_id |-> exclude_event_id,
                  result |-> res,
                  conflicts |-> IF res = "conflict"
                                THEN ScheduleConflicts(user_id, start_time, end_time,
                                                       exclude_event_id)
                                ELSE {}]
    /\ UNCHANGED <<now, taskVars, events, habitVars, chalVars>>

check_habit_conflicts(user_id, start_time, end_time) ==
    LET res == CheckHabitResult(user_id, start_time, end_time) IN
    /\ calRet' = [op |-> "check_habit_conflicts",
                  user_id |-> user_id,
                  start_time |-> start_time,
                  end_time |-> end_time,
                  exclude_event_id |-> None,
                  result |-> res,
                  conflicts |-> IF res = "conflict"
                                THEN HabitConflicts(user_id, start_time, end_time)
                                ELSE {}]
    /\ UNCHANGED <<now, taskVars, events, habitVars, chalVars>>

\* The conflict check reads the table and writes nothing, so its
\* specification starts from any calendar of at most MaxEvents events and
\* applies either check to any proposed interval.
\* starts on a quarter-hour grid; durations of 1 min, 10 min, 10 min 1 s,
\* 15 min and 45 min
CalStartTimes == {k * 15 * SecondsPerMinute : k \in 0..MaxCalSlots}
CalDurations == {60, 600, 601, 900, 2700}
CalIntervals == {<<s, s + d>> : s \in CalStartTimes, d \in CalDurations}
CalEventRows ==
    {[user_id |-> u, start_time |-> iv[1], end_time |-> iv[2]] :
        u \in Users, iv \in CalIntervals}
CalTables == UNION {[1..n -> CalEventRows] : n \in 0..MaxEvents}
ExcludeIds == {None} \cup {Some(i) : i \in 1..MaxEvents}

InitConflict ==
    /\ now \in {0, 15 * SecondsPerMinute * TicksPerSecond}
    /\ NoTasks
    /\ events \in CalTables
    /\ calRet = NoCalRet
    /\ NoHabits
    /\ NoChallenges

NextConflict ==
    \/ \E iv \in CalIntervals, x \in ExcludeIds :
          validate_schedule_time(1, iv[1], iv[2], x)
    \/ \E iv \in CalIntervals :
          check_habit_conflicts(1, iv[1], iv[2])

SpecConflict == InitConflict /\ [][NextConflict]_vars

----------------------------------------------------------------------------
(* Challenge lifecycle: app/routers/challenges.py, and the expiry sweep:    *)
(* app/utils/challenge_scheduler.py. A run of the sweep is one step: the    *)
(* loop over the expired challenges with its commits, then db.close().      *)

ChallengeIds == DOMAIN challenges
ParticipantRows == DOMAIN participants

NewParticipant(challenge_id, user_id, status) ==
    [challenge_id |-> challenge_id, user_id |-> user_id, status |-> status,
     start_time |-> None, end_time |-> None, time_taken_seconds |-> None,
     score |-> None, rank |-> None]

\* challenge.participants
ParticipantsOf(c) == {i \in ParticipantRows : participants[i].challenge_id = c}

\* .first() of the query by challenge_id and user_id
FindParticipant(c, u) ==
    LET found == {i \in ParticipantsOf(c) : participants[i].user_id = u}
    IN IF found = {} THEN {None} ELSE {Some(i) : i \in found}

\* the orders in which the rows of a relationship without order_by may load
LoadOrders == {"ascending", "descending"}

\* sorted(rows, key): the rows of S by ascending key, equal keys in load
\* order, as a stable insertion of the rows in the order they load; less is
\* the set of the pairs <<i, j>> with the key of i below the key of j
SortedRows(S, less, loadOrder) ==
    LET top == IF S = {} THEN 0 ELSE CHOOSE m \in S : \A j \in S : j <= m
        loaded == SelectSeq([k \in 1..top |->
                               IF loadOrder = "ascending" THEN k ELSE top + 1 - k],
                            LAMBDA i : i \in S)
        insert(sorted, i) ==
            LET keep == Cardinality({m \in 1..Len(sorted) : <<i, sorted[m]>> \notin less})
            IN SubSeq(sorted, 1, keep) \o <<i>> \o SubSeq(sorted, keep + 1, Len(sorted))
        upTo[m \in 0..Cardinality(S)] ==
            IF m = 0 THEN << >> ELSE insert(upTo[m - 1], loaded[m])
    IN upTo[Cardinality(S)]

\* x or default, for a nullable number
OrElse(x, default) == IF IsNone(x) \/ Val(x) = 0 THEN default ELSE Val(x)

\* inputs of create_challenge
QuizLayout == [duration_minutes |-> 6,
               questions |-> << <<TRUE, FALSE>>, <<FALSE, TRUE>> >>]
QuizInputs == {None, Some(QuizLayout)}
DurationMinutes == {1}
LifespanHours == {0, 1}
InvitedLists(creator) == {<< >>} \cup {<<f>> : f \in Users \ {creator}}

create_challenge(current_user, duration_minutes, is_quiz, lifespan_hours, invited_friend_ids, quiz_data) ==
    /\ challengeSeq < MaxChallenges
    /\ IF is_quiz /\ IsNone(quiz_data)
       THEN /\ chalRet' = [op |-> "create_challenge", result |-> "quiz_data_required"]
            /\ UNCHANGED <<challenges, challengeSeq, participants>>
       ELSE LET id == challengeSeq + 1 IN
            /\ challengeSeq' = id
            /\ challenges' =
                 [c \in ChallengeIds \cup {id} |->
                    IF c = id
                    THEN [creator_id |-> current_user,
                          duration_minutes |-> duration_minutes,
                          is_quiz |-> is_quiz,
                          expires_at |-> now + lifespan_hours * SecondsPerHour * TicksPerSecond,
                          quiz |-> IF is_quiz THEN quiz_data ELSE None]
                    ELSE challenges[c]]
            /\ participants' =
                 participants
                 \o [k \in 1..Len(invited_friend_ids) |->
                        NewParticipant(id, invited_friend_ids[k], "invited")]
                 \o <<NewParticipant(id, current_user, "accepted")>>
            /\ chalRet' = [op |-> "create_challenge", result |-> "ok"]
    /\ UNCHANGED <<now, taskVars, calVars, userStats, subVars>>

\* respond_to_invite without the test of the row's status
RespondResultAnyStatus(found) ==
    IF IsNone(found) THEN "not_found" ELSE "ok"

RespondResult(found) ==
    IF IsNone(found) THEN "not_found"
    ELSE IF participants[Val(found)].status # "invited" THEN "already_responded"
    ELSE "ok"

respond_to_invite(challenge_id, current_user, accept) ==
    /\ \E found \in FindParticipant(challenge_id, current_user) :
         LET res == RespondResult(found) IN
         /\ participants' =
              IF res = "ok"
              THEN [participants EXCEPT ![Val(found)].status =
                       IF accept THEN "accepted" ELSE "rejected"]
              ELSE participants
         /\ chalRet' = [op |-> "respond_to_invite", result |-> res]
    /\ UNCHANGED <<now, taskVars, calVars, challenges, challengeSeq, userStats, subVars>>

StartChallengeResult(found) ==
    IF IsNone(found) THEN "cannot_start"
    ELSE IF participants[Val(found)].status # "accepted" THEN "cannot_start"
    ELSE IF IsSome(participants[Val(found)].start_time) THEN "already_started"
    ELSE "ok"

start_challenge(challenge_id, current_user) ==
    /\ \E found \in FindParticipant(challenge_id, current_user) :
         LET res == StartChallengeResult(found) IN
         /\ participants' =
              IF res = "ok"
              THEN [participants EXCEPT ![Val(found)].start_time = Some(now)]
              ELSE participants
         /\ chalRet' = [op |-> "start_challenge", result |-> res]
    /\ UNCHANGED <<now, taskVars, calVars, challenges, challengeSeq, userStats, subVars>>

\* a submission is a list of answers; an option's id is <<question, position>>
Answer(q, o) == [question_id |-> q, selected_option_id |-> o]
Submissions ==
    {<< >>, <<Answer(1, <<1, 1>>)>>, <<Answer(1, <<1, 1>>), Answer(2, <<2, 2>>)>>}

\* correct_map: question_id -> the id of its last option with is_correct
HasCorrectOption(questions, q) ==
    q \in DOMAIN questions /\ \E o \in DOMAIN questions[q] : questions[q][o]

CorrectOption(questions, q) ==
    <<q, CHOOSE o \in DOMAIN questions[q] :
            /\ questions[q][o]
            /\ \A o2 \in DOMAIN questions[q] : questions[q][o2] => o2 <= o>>

CorrectCount(questions, answers) ==
    Cardinality({a \in DOMAIN answers :
                   /\ HasCorrectOption(questions, answers[a].question_id)
                   /\ CorrectOption(questions, answers[a].question_id)
                        = answers[a].selected_option_id})

\* (correct_count / total_questions) * 100, exact for the quiz layouts drawn
QuizScore(questions, answers) ==
    IF Len(questions) > 0
    THEN (CorrectCount(questions, answers) * 100) \div Len(questions)
    ELSE 0

\* finish_challenge without the test of end_time
FinishResultNoRepeatCheck(challenge_id, found) ==
    IF challenge_id \notin ChallengeIds THEN "not_found"
    ELSE IF IsNone(found) THEN "not_started"
    ELSE IF IsNone(participants[Val(found)].start_time) THEN "not_started"
    ELSE "ok"

FinishResult(challenge_id, found) ==
    IF challenge_id \notin ChallengeIds THEN "not_found"
    ELSE IF IsNone(found) THEN "not_started"
    ELSE IF IsNone(participants[Val(found)].start_time) THEN "not_started"
    ELSE IF IsSome(participants[Val(found)].end_time) THEN "already_finished"
    ELSE "ok"

FinishedParticipant(p, challenge, submission) ==
    [p EXCEPT !.end_time = Some(now),
              !.time_taken_seconds = Some(IntSeconds(now - Val(p.start_time))),
              !.status = "completed",
              !.score = IF challenge.is_quiz /\ IsSome(challenge.quiz)
                        THEN Some(QuizScore(Val(challenge.quiz).questions, submission))
                        ELSE p.score]

\* the sort keys of _calculate_ranks_if_completed; float('inf') sorts after
\* every number
RouterTimeLess(P, i, j) ==
    LET unset(k) == IsNone(P[k].time_taken_seconds) \/ Val(P[k].time_taken_seconds) = 0
    IN IF unset(i) THEN FALSE
       ELSE IF unset(j) THEN TRUE
       ELSE Val(P[i].time_taken_seconds) < Val(P[j].time_taken_seconds)

RouterKeyLess(P, is_quiz, i, j) ==
    IF is_quiz
    THEN \/ OrElse(P[i].score, 0) > OrElse(P[j].score, 0)
         \/ /\ OrElse(P[i].score, 0) = OrElse(P[j].score, 0)
            /\ RouterTimeLess(P, i, j)
    ELSE RouterTimeLess(P, i, j)

\* ranking as soon as one participant of challenge c has completed
SomeoneCompleted(P, c) ==
    \E i \in DOMAIN P : P[i].challenge_id = c /\ P[i].status = "completed"

\* neither early return of _calculate_ranks_if_completed is taken: each active
\* participant of challenge c has completed, and there is one
EveryoneCompleted(P, c) ==
    LET rows == {i \in DOMAIN P : P[i].challenge_id = c}
        active == {i \in rows : P[i].status \in {"accepted", "in_progress", "completed"}}
        completed == {i \in active : P[i].status = "completed"}
    IN ~(Cardinality(completed) < Cardinality(active)) /\ completed # {}

\* _calculate_ranks_if_completed on the table P
CalculateRanksIfCompleted(P, c, loadOrder) ==
    LET rows == {i \in DOMAIN P : P[i].challenge_id = c}
        active == {i \in rows : P[i].status \in {"accepted", "in_progress", "completed"}}
        completed == {i \in active : P[i].status = "completed"}
        sorted == SortedRows(completed,
                             {pair \in completed \X completed :
                                RouterKeyLess(P, challenges[c].is_quiz, pair[1], pair[2])},
                             loadOrder)
    IN IF ~EveryoneCompleted(P, c)
       THEN P
       ELSE [i \in DOMAIN P |->
               IF \E k \in 1..Len(sorted) : k <= 3 /\ sorted[k] = i
               THEN [P[i] EXCEPT !.rank =
                       Some(CHOOSE k \in 1..Len(sorted) : sorted[k] = i)]
               ELSE P[i]]

finish_challenge(challenge_id, current_user, submission) ==
    /\ \E found \in FindParticipant(challenge_id, current_user), loadOrder \in LoadOrders :
         LET res == FinishResult(challenge_id, found) IN
         /\ participants' =
              IF res = "ok"
              THEN CalculateRanksIfCompleted(
                      [participants EXCEPT ![Val(found)] =
                          FinishedParticipant(@, challenges[challenge_id], submission)],
                      challenge_id, loadOrder)
              ELSE participants
         /\ chalRet' = [op |-> "finish_challenge", result |-> res]
    /\ UNCHANGED <<now, taskVars, calVars, challenges, challengeSeq, userStats, subVars>>

(* process_expired_challenges *)

\* max_duration
MaxDurationSeconds(challenge) ==
    challenge.duration_minutes * SecondsPerMinute
    + (IF challenge.is_quiz /\ IsSome(challenge.quiz)
       THEN Val(challenge.quiz).duration_minutes * SecondsPerMinute
       ELSE 0)

\* status accepted, started, not finished
StillRunning(p) ==
    p.status = "accepted" /\ IsSome(p.start_time) /\ IsNone(p.end_time)

\* OverBudget forcing a finish already at time_elapsed = max_duration + 300
OverBudgetAtLimit(challenge, p, t) ==
    t - Val(p.start_time) >= (MaxDurationSeconds(challenge) + GraceSeconds) * TicksPerSecond

\* time_elapsed > max_duration + 300, time_elapsed in seconds at clock t
OverBudget(challenge, p, t) ==
    t - Val(p.start_time) > (MaxDurationSeconds(challenge) + GraceSeconds) * TicksPerSecond

ForceFinished(p, t) ==
    [p EXCEPT !.end_time = Some(t),
              !.time_taken_seconds = Some(IntSeconds(t - Val(p.start_time))),
              !.status = "completed"]

\* the rows of challenge c in the table P
RowsOf(P, c) == {i \in DOMAIN P : P[i].challenge_id = c}

\* the rows of challenge c the sweep at clock t force-finishes
ForcedRows(P, c, t) ==
    {i \in RowsOf(P, c) : StillRunning(P[i]) /\ OverBudget(challenges[c], P[i], t)}

\* all_finished when the sweep waits for every started participant to finish
AllFinishedNoForce(P, c, t) ==
    \A i \in RowsOf(P, c) : ~StillRunning(P[i])

\* all_finished
AllFinished(P, c, t) ==
    \A i \in RowsOf(P, c) : StillRunning(P[i]) => OverBudget(challenges[c], P[i], t)

\* the table after the loop over the participants of c
AfterForce(P, c, t) ==
    SubSeq([i \in DOMAIN P |->
              IF i \in ForcedRows(P, c, t) THEN ForceFinished(P[i], t) ELSE P[i]],
           1, Len(P))

\* the sort keys of the sweep
SweepKeyLess(P, is_quiz, i, j) ==
    IF is_quiz
    THEN \/ OrElse(P[i].score, 0) > OrElse(P[j].score, 0)
         \/ /\ OrElse(P[i].score, 0) = OrElse(P[j].score, 0)
            /\ OrElse(P[i].time_taken_seconds, UnsetTimeKey)
                 < OrElse(P[j].time_taken_seconds, UnsetTimeKey)
    ELSE OrElse(P[i].time_taken_seconds, UnsetTimeKey)
           < OrElse(P[j].time_taken_seconds, UnsetTimeKey)

\* active_participants: the completed rows of c in the table P
ActiveParticipants(P, c) == {i \in RowsOf(P, c) : P[i].status = "completed"}

\* sorted_participants
SortedParticipants(P, c, loadOrder) ==
    SortedRows(ActiveParticipants(P, c),
               {pair \in ActiveParticipants(P, c) \X ActiveParticipants(P, c) :
                  SweepKeyLess(P, challenges[c].is_quiz, pair[1], pair[2])},
               loadOrder)

\* silver and bronze for any second and third, whatever the pool size
SilverBronzeAlways(n) == TRUE

\* len(sorted_participants) >= 10
SilverBronzeAwarded(n) == n >= SilverBronzeThreshold

Count(b) == IF b THEN 1 ELSE 0

\* the users table after the cups and the counts are added, sorted being
\* sorted_participants over the table P
WithAwards(stats, P, sorted) ==
    [u \in AllUsers |->
       [gold_cups |-> stats[u].gold_cups
                        + Count(Len(sorted) >= 1 /\ P[sorted[1]].user_id = u),
        silver_cups |-> stats[u].silver_cups
                          + Count(SilverBronzeAwarded(Len(sorted)) /\ Len(sorted) > 1
                                  /\ P[sorted[2]].user_id = u),
        bronze_cups |-> stats[u].bronze_cups
                          + Count(SilverBronzeAwarded(Len(sorted)) /\ Len(sorted) > 2
                                  /\ P[sorted[3]].user_id = u),
        challenges_count |-> stats[u].challenges_count
             + Cardinality({k \in 1..Len(sorted) : P[sorted[k]].user_id = u})]]

AwardedStats(stats, P, c, loadOrder) ==
    WithAwards(stats, P, SortedParticipants(P, c, loadOrder))

\* the query taking every challenge, expired or not
AllChallenges(t) == ChallengeIds

\* the query of the expired challenges
ExpiredChallenges(t) == {c \in ChallengeIds : challenges[c].expires_at <= t}

\* db.delete(challenge) with its cascade
WithoutChallenge(P, c) == SelectSeq(P, LAMBDA p : p.challenge_id # c)

\* the orders in which a query without ORDER BY may return the set S
QueryOrders(S) ==
    {order \in [1..Cardinality(S) -> S] :
        \A a, b \in 1..Cardinality(S) : a # b => order[a] # order[b]}

\* the state of the sweep's session before the loop: what it holds, what is
\* committed, which challenges it has deleted
SessionStart ==
    [session |-> participants, committed |-> participants,
     userStats |-> userStats, deleted |-> {}]

\* the loop body with a commit that leaves the challenge and its rows in place
SweepBodyNoDelete(st, c, t, loadOrder) ==
    IF ~AllFinished(st.session, c, t)
    THEN [st EXCEPT !.session = AfterForce(st.session, c, t)]
    ELSE [session |-> AfterForce(st.session, c, t),
          committed |-> AfterForce(st.session, c, t),
          userStats |-> AwardedStats(st.userStats, AfterForce(st.session, c, t), c, loadOrder),
          deleted |-> st.deleted]

\* the loop body for challenge c: either continue, the force-finished rows
\* pending in the session, or award, delete and commit
SweepBody(st, c, t, loadOrder) ==
    IF ~AllFinished(st.session, c, t)
    THEN [st EXCEPT !.session = AfterForce(st.session, c, t)]
    ELSE [session |-> WithoutChallenge(AfterForce(st.session, c, t), c),
          committed |-> WithoutChallenge(AfterForce(st.session, c, t), c),
          userStats |-> AwardedStats(st.userStats, AfterForce(st.session, c, t), c, loadOrder),
          deleted |-> st.deleted \cup {c}]

RECURSIVE SweepLoop(_, _, _, _)
SweepLoop(st, order, t, loadOrder) ==
    IF order = << >> THEN st
    ELSE SweepLoop(SweepBody(st, Head(order), t, loadOrder), Tail(order), t, loadOrder)

\* what a run did, for the record: nothing had expired, every expired
\* challenge was left for the next run, or some challenge was settled, with
\* or without a force-finished participant
SweepOutcome(final, t) ==
    IF ExpiredChallenges(t) = {} THEN "nothing_expired"
    ELSE IF final.deleted = {} THEN "deferred"
    ELSE IF \E c \in final.deleted : ForcedRows(participants, c, t) # {}
         THEN "settled_after_force_finish"
    ELSE "settled"

\* one run of the job; db.close() drops what the session holds uncommitted
process_expired_challenges ==
    /\ \E order \in QueryOrders(ExpiredChallenges(now)), loadOrder \in LoadOrders :
       \E final \in {SweepLoop(SessionStart, order, now, loadOrder)} :
         /\ participants' = final.committed
         /\ userStats' = final.userStats
         /\ challenges' = [c \in ChallengeIds \ final.deleted |-> challenges[c]]
         /\ chalRet' = [op |-> "process_expired_challenges",
                        result |-> SweepOutcome(final, now)]
    /\ UNCHANGED <<now, taskVars, calVars, challengeSeq, subVars>>

\* the wall clock between two requests or sweeps, six minutes at a time; it
\* runs on past the bound while a started participant is inside its window
ChallengeStepTicks == 6 * SecondsPerMinute * TicksPerSecond

SomeoneInsideWindow ==
    \E i \in ParticipantRows :
        /\ StillRunning(participants[i])
        /\ ~OverBudget(challenges[participants[i].challenge_id], participants[i], now)

ChallengeClock ==
    /\ now < MaxChalTicks * ChallengeStepTicks \/ SomeoneInsideWindow
    /\ now' = now + ChallengeStepTicks
    /\ UNCHANGED <<taskVars, calVars, chalVars>>

ChallengeRequestIds == 1..MaxChallenges

InitChallenge ==
    /\ now = 0
    /\ NoTasks
    /\ events = << >>
    /\ calRet = NoCalRet
    /\ NoHabits
    /\ NoChallenges

NextChallenge ==
    \/ \E u \in Users, d \in DurationMinutes, q \in BOOLEAN, l \in LifespanHours,
          qd \in QuizInputs :
          \E inv \in InvitedLists(u) : create_challenge(u, d, q, l, inv, qd)
    \/ \E c \in ChallengeRequestIds, u \in Users, a \in BOOLEAN :
          respond_to_invite(c, u, a)
    \/ \E c \in ChallengeRequestIds, u \in Users : start_challenge(c, u)
    \/ \E c \in ChallengeRequestIds, u \in Users, sub \in Submissions :
          finish_challenge(c, u, sub)
    \/ process_expired_challenges
    \/ ChallengeClock

SpecChallenge == InitChallenge /\ [][NextChallenge]_vars

\* a run of the job now would settle some challenge
SweepDue == \E c \in ExpiredChallenges(now) : AllFinished(participants, c, now)

\* the clock runs, and the job, scheduled every 15 minutes (app/main.py),
\* runs again and again: it cannot stay due forever without running
SpecChallengeFair ==
    /\ SpecChallenge
    /\ WF_vars(ChallengeClock)
    /\ ([]<>(~SweepDue) \/ []<><<process_expired_challenges>>_vars)

(* Settlement of an expired challenge with a pool of up to eleven completed  *)
(* participants: the tables are drawn, then only the clock and the sweep    *)
(* run.                                                                     *)

SettlePoolSizes ==
    {1, 2, 3, SilverBronzeThreshold - 1, SilverBronzeThreshold, SilverBronzeThreshold + 1}
SettleStartTicks == 3 * ChallengeStepTicks
SettleSlowSeconds == 3 * 6 * SecondsPerMinute
SettleFastSeconds == {6 * SecondsPerMinute, 2 * 6 * SecondsPerMinute}
SettleScores == {Some(50), Some(100)}
SettleExtraKinds == {"none", "invited", "rejected", "accepted", "running"}

\* the rows whose time and score are drawn: the first two and the last
SettleVaried(n) == {1, 2, n} \cap (1..n)

CompletedRow(c, u, seconds, score) ==
    [challenge_id |-> c, user_id |-> u, status |-> "completed",
     start_time |-> Some(0), end_time |-> Some(seconds * TicksPerSecond),
     time_taken_seconds |-> Some(seconds), score |-> score, rank |-> None]

ExtraRow(c, u, kind) ==
    IF kind = "running"
    THEN [NewParticipant(c, u, "accepted") EXCEPT
            !.start_time = Some(SettleStartTicks - ChallengeStepTicks)]
    ELSE NewParticipant(c, u, kind)

SettleChallenge(is_quiz) ==
    [creator_id |-> 1, duration_minutes |-> 1, is_quiz |-> is_quiz,
     expires_at |-> 0, quiz |-> IF is_quiz THEN Some(QuizLayout) ELSE None]

InitSettle ==
    /\ now = SettleStartTicks
    /\ NoTasks
    /\ events = << >>
    /\ calRet = NoCalRet
    /\ NoHabits
    /\ NoActivations
    /\ challengeSeq = 1
    /\ userStats = [u \in AllUsers |-> ZeroStats]
    /\ chalRet = [op |-> "none", result |-> "none"]
    /\ \E is_quiz \in BOOLEAN, n \in SettlePoolSizes, kind \in SettleExtraKinds :
         /\ challenges = [c \in {1} |-> SettleChallenge(is_quiz)]
         /\ \E seconds \in [SettleVaried(n) -> SettleFastSeconds],
               scores \in [SettleVaried(n) -> IF is_quiz THEN SettleScores ELSE {None}] :
              participants =
                [i \in 1..n |->
                   IF i \in SettleVaried(n)
                   THEN CompletedRow(1, i, seconds[i], scores[i])
                   ELSE CompletedRow(1, i, SettleSlowSeconds,
                                     IF is_quiz THEN Some(50) ELSE None)]
                \o (IF kind = "none" THEN << >> ELSE <<ExtraRow(1, n + 1, kind)>>)

NextSettle ==
    \/ process_expired_challenges
    \/ ChallengeClock

SpecSettle == InitSettle /\ [][NextSettle]_vars

----------------------------------------------------------------------------
(* A late invitee: a non-quiz challenge whose creator and two friends have  *)
(* completed and been ranked, with a third friend still invited. The        *)
(* routes then run for all four users.                                      *)

RankUsers == 1..4
RankSeconds == {360, 720, 1080}

RankedChallenge ==
    [creator_id |-> 1, duration_minutes |-> 1, is_quiz |-> FALSE,
     expires_at |-> SecondsPerDay * TicksPerSecond, quiz |-> None]

InitRanks ==
    /\ NoTasks
    /\ events = << >>
    /\ calRet = NoCalRet
    /\ NoHabits
    /\ NoActivations
    /\ challengeSeq = 1
    /\ userStats = [u \in AllUsers |-> ZeroStats]
    /\ chalRet = [op |-> "none", result |-> "none"]
    /\ challenges = [c \in {1} |-> RankedChallenge]
    /\ \E seconds \in [1..3 -> RankSeconds], loadOrder \in LoadOrders :
         /\ now = Max(Max(seconds[1], seconds[2]), seconds[3]) * TicksPerSecond
         /\ participants =
              CalculateRanksIfCompleted(
                 <<CompletedRow(1, 2, seconds[2], None),
                   CompletedRow(1, 3, seconds[3], None),
                   NewParticipant(1, 4, "invited"),
                   CompletedRow(1, 1, seconds[1], None)>>,
                 1, loadOrder)

NextRanks ==
    \/ \E c \in ChallengeRequestIds, u \in RankUsers, a \in BOOLEAN :
          respond_to_invite(c, u, a)
    \/ \E c \in ChallengeRequestIds, u \in RankUsers : start_challenge(c, u)
    \/ \E c \in ChallengeRequestIds, u \in RankUsers : finish_challenge(c, u, << >>)
    \/ ChallengeClock

SpecRanks == InitRanks /\ [][NextRanks]_vars

----------------------------------------------------------------------------
(* Quiz scoring: a challenge whose creator and one friend have both started, *)
(* drawn over quiz layouts of zero to two questions of two options each;    *)
(* the finish route then runs on submissions of up to MaxAnswers answers,   *)
(* which may repeat a question id or name a question the quiz lacks.        *)

QuizOptionFlags == {<<TRUE, FALSE>>, <<FALSE, TRUE>>, <<FALSE, FALSE>>}

QuizQuestionLists ==
    {<< >>} \cup {<<a>> : a \in QuizOptionFlags}
            \cup {<<a, b>> : a \in QuizOptionFlags, b \in {<<TRUE, FALSE>>, <<FALSE, TRUE>>}}

QuizAnswers ==
    {Answer(q, <<q, o>>) : q \in 1..2, o \in 1..2} \cup {Answer(3, <<3, 1>>)}

QuizSubmissions ==
    UNION {[1..n -> QuizAnswers] : n \in 0..MaxAnswers}

ScoredChallenge(is_quiz, questions) ==
    [creator_id |-> 1, duration_minutes |-> 1, is_quiz |-> is_quiz,
     expires_at |-> SecondsPerDay * TicksPerSecond,
     quiz |-> IF is_quiz
              THEN Some([duration_minutes |-> 6, questions |-> questions])
              ELSE None]

StartedRow(c, u) == [NewParticipant(c, u, "accepted") EXCEPT !.start_time = Some(0)]

InitQuiz ==
    /\ now = 0
    /\ NoTasks
    /\ events = << >>
    /\ calRet = NoCalRet
    /\ NoHabits
    /\ NoActivations
    /\ challengeSeq = 1
    /\ userStats = [u \in AllUsers |-> ZeroStats]
    /\ chalRet = [op |-> "none", result |-> "none"]
    /\ participants = <<StartedRow(1, 2), StartedRow(1, 1)>>
    /\ \E is_quiz \in BOOLEAN :
         \E questions \in IF is_quiz THEN QuizQuestionLists ELSE {<< >>} :
            challenges = [c \in {1} |-> ScoredChallenge(is_quiz, questions)]

NextQuiz ==
    \/ \E c \in ChallengeRequestIds, u \in Users, sub \in QuizSubmissions :
          finish_challenge(c, u, sub)
    \/ ChallengeClock

SpecQuiz == InitQuiz /\ [][NextQuiz]_vars

----------------------------------------------------------------------------
(* Habits and their calendar events: app/routers/habits.py and              *)
(* app/utils/maintain_habit_schedules.py. A date is a number of days since  *)
(* Monday 2024-01-01; event times are seconds since that midnight.          *)

HabitIds == DOMAIN habits

\* date.weekday(): Monday = 0 .. Sunday = 6
Weekday(d) == d % 7

\* the lengths of the months of 2024 (a leap year) to 2027
MonthLengths ==
    <<31, 29, 31, 30, 31, 30, 31, 31, 30, 31, 30, 31,
      31, 28, 31, 30, 31, 30, 31, 31, 30, 31, 30, 31,
      31, 28, 31, 30, 31, 30, 31, 31, 30, 31, 30, 31,
      31, 28, 31, 30, 31, 30, 31, 31, 30, 31, 30, 31>>

\* the days of the month of the dates of the first m months, date by date
RECURSIVE DaysOfMonths(_)
DaysOfMonths(m) ==
    IF m = 0 THEN << >>
    ELSE DaysOfMonths(m - 1) \o [d \in 1..MonthLengths[m] |-> d]

DayOfMonthTable == DaysOfMonths(Len(MonthLengths))

\* date.day: the day of the month, 1..31
DayOfMonth(d) == DayOfMonthTable[d + 1]

\* datetime.combine(date, time(hour, minute)), in seconds
SlotStart(d, slot) ==
    d * SecondsPerDay + slot.hour * SecondsPerHour + slot.minute * SecondsPerMinute

\* the time-slot list a frequency reads
SlotsOf(habit) ==
    IF habit.frequency = "daily" THEN habit.daily_times
    ELSE IF habit.frequency = "weekly" THEN habit.weekly_times
    ELSE habit.monthly_times

\* the days ahead a permanent habit is scheduled
LookaheadDays(frequency) ==
    IF frequency = "daily" THEN DailyLookaheadDays
    ELSE IF frequency = "weekly" THEN WeeklyLookaheadDays
    ELSE MonthlyLookaheadDays

\* get_schedule_period of the maintainer
get_schedule_period(frequency) ==
    IF frequency = "daily" THEN DailyLookaheadDays
    ELSE IF frequency = "weekly" THEN WeeklyLookaheadDays
    ELSE IF frequency = "monthly" THEN MonthlyLookaheadDays
    ELSE DailyLookaheadDays

\* whether _generate_*_events emits the slot on the date
GenerateMatches(frequency, d, slot) ==
    IF frequency = "daily" THEN TRUE
    ELSE IF frequency = "weekly" THEN Weekday(d) = (slot.day - 1) % 7
    ELSE DayOfMonth(d) = slot.day

\* a maintainer that compares the weekday with the slot's day as it is
AddMatchesUnshifted(frequency, d, slot) ==
    IF frequency = "daily" THEN TRUE
    ELSE IF frequency = "weekly" THEN Weekday(d) = slot.day % 7
    ELSE DayOfMonth(d) = slot.day

\* whether _add_*_events of the maintainer emits the slot on the date
AddMatches(frequency, d, slot) ==
    IF frequency = "daily" THEN TRUE
    ELSE IF frequency = "weekly" THEN Weekday(d) = (slot.day - 1) % 7
    ELSE DayOfMonth(d) = slot.day

\* CalendarEvent(user_id, habit_id, event_type = 'habit', start_time, end_time)
HabitEvent(habit, id, d, slot) ==
    [user_id |-> habit.user_id, habit_id |-> Some(id), event_type |-> "habit",
     start_time |-> SlotStart(d, slot),
     end_time |-> SlotStart(d, slot) + habit.duration_minutes * SecondsPerMinute,
     task_id |-> None]

\* the pairs <<date, slot index>> in the order of the loops: dates first to
\* last, and for each date the slots in list order
LoopOrder(first, last, n) ==
    IF last < first \/ n = 0 THEN << >>
    ELSE [i \in 1..((last - first + 1) * n) |->
            <<first + ((i - 1) \div n), ((i - 1) % n) + 1>>]

\* a window that stops the day before today + the look-ahead
GenerateWindowShort(habit, today) ==
    IF habit.is_permanent
    THEN <<today, today + LookaheadDays(habit.frequency) - 1>>
    ELSE <<Val(habit.start_date), Val(habit.end_date)>>

\* the window of _generate_*_events
GenerateWindow(habit, today) ==
    IF habit.is_permanent
    THEN <<today, today + LookaheadDays(habit.frequency)>>
    ELSE <<Val(habit.start_date), Val(habit.end_date)>>

\* the events generate_habit_events builds, in the order it adds them
GenerateOccurrences(habit, id, today) ==
    LET slots == SlotsOf(habit)
        window == GenerateWindow(habit, today)
        picked == SelectSeq(LoopOrder(window[1], window[2], Len(slots)),
                            LAMBDA pair : GenerateMatches(habit.frequency, pair[1],
                                                          slots[pair[2]]))
        built == [k \in 1..Len(picked) |->
                    HabitEvent(habit, id, picked[k][1], slots[picked[k][2]])]
    IN SubSeq(built, 1, Len(built))

\* check_habit_conflicts on the table the session reads
ConflictIn(table, user_id, start_time, end_time) ==
    /\ ~IsShortDuration(start_time, end_time)
    /\ \E i \in DOMAIN table :
          /\ table[i].user_id = user_id
          /\ OverlapsQuery(table[i], start_time, end_time)
          /\ IsLongEvent(table[i])

\* the occurrences whose conflict check raises: the check reads the committed
\* table and, when the session flushes before a query, the occurrences added
\* before this one
ConflictingOccurrences(table, occurrences, autoflush) ==
    {k \in DOMAIN occurrences :
        \/ ConflictIn(table, occurrences[k].user_id,
                      occurrences[k].start_time, occurrences[k].end_time)
        \/ /\ autoflush
           /\ ~IsShortDuration(occurrences[k].start_time, occurrences[k].end_time)
           /\ \E j \in 1..(k - 1) :
                 /\ OverlapsQuery(occurrences[j], occurrences[k].start_time,
                                  occurrences[k].end_time)
                 /\ IsLongEvent(occurrences[j])}

FirstOf(S) == CHOOSE k \in S : \A j \in S : k <= j

\* validate_habit_data raises nothing
ValidHabitData(habit_data) ==
    /\ habit_data.frequency = "daily" => habit_data.daily_times # << >>
    /\ habit_data.frequency = "weekly" => habit_data.weekly_times # << >>
    /\ habit_data.frequency = "monthly" => habit_data.monthly_times # << >>
    /\ ~habit_data.is_permanent =>
          /\ IsSome(habit_data.start_date) /\ IsSome(habit_data.end_date)
          /\ Val(habit_data.end_date) > Val(habit_data.start_date)

\* an active habit of the user has the name
NameTaken(user_id, name) ==
    \E h \in HabitIds :
        habits[h].user_id = user_id /\ habits[h].name = name /\ habits[h].is_active

NewHabit(user_id, habit_data) ==
    [user_id |-> user_id, name |-> habit_data.name,
     is_permanent |-> habit_data.is_permanent, frequency |-> habit_data.frequency,
     duration_minutes |-> habit_data.duration_minutes,
     daily_times |-> habit_data.daily_times,
     weekly_times |-> habit_data.weekly_times,
     monthly_times |-> habit_data.monthly_times,
     start_date |-> habit_data.start_date, end_date |-> habit_data.end_date,
     is_active |-> TRUE]

WithHabit(id, habit) == [h \in HabitIds \cup {id} |-> IF h = id THEN habit ELSE habits[h]]

\* what the store holds after db.delete(habit); db.commit() in the handler of
\* a conflict. With a session that flushes before queries the added events
\* are loaded by the delete cascade and removed with the habit. Otherwise the
\* commit inserts the pending events and deletes the habit in one flush:
\* the database either cascades, rejects the flush (the habit stays, without
\* events), or keeps the events of the deleted habit.
FailureOutcomes(autoflush) ==
    IF autoflush THEN {"rolled_back"} ELSE {"rolled_back", "habit_kept", "events_kept"}

create_habit(current_user, habit_data) ==
    /\ habitSeq < MaxHabits
    /\ \E autoflush \in {sessionAutoflush} :
         IF NameTaken(current_user, habit_data.name)
         THEN /\ habitRet' = [op |-> "create_habit", result |-> "name_taken"]
              /\ UNCHANGED <<habits, habitSeq, events>>
         ELSE IF ~ValidHabitData(habit_data)
         THEN /\ habitRet' = [op |-> "create_habit", result |-> "invalid"]
              /\ UNCHANGED <<habits, habitSeq, events>>
         ELSE LET id == habitSeq + 1
                  habit == NewHabit(current_user, habit_data)
              IN \E occurrences \in {GenerateOccurrences(habit, id, DateOf(now))} :
                 \E bad \in {ConflictingOccurrences(events, occurrences, autoflush)} :
                    /\ habitSeq' = id
                    /\ IF bad = {}
                       THEN /\ habits' = WithHabit(id, habit)
                            /\ events' = events \o occurrences
                            /\ habitRet' = [op |-> "create_habit", result |-> "ok"]
                       ELSE \E outcome \in FailureOutcomes(autoflush) :
                            /\ habits' = IF outcome = "habit_kept"
                                         THEN WithHabit(id, habit) ELSE habits
                            /\ events' = IF outcome = "events_kept"
                                         THEN events \o SubSeq(occurrences, 1, FirstOf(bad) - 1)
                                         ELSE events
                            /\ habitRet' = [op |-> "create_habit",
                                            result |-> IF outcome = "habit_kept"
                                                       THEN "error" ELSE "conflict"]
    /\ UNCHANGED <<now, taskVars, calRet, habitUpdates, sessionAutoflush, raceVars, chalVars>>

\* the habit's fields after update_habit has assigned the ones it was given
UpdatedHabit(habit, habit_data) ==
    [habit EXCEPT
        !.name = IF IsSome(habit_data.name) THEN Val(habit_data.name) ELSE @,
        !.duration_minutes = IF IsSome(habit_data.duration_minutes)
                             THEN Val(habit_data.duration_minutes) ELSE @,
        !.is_active = IF IsSome(habit_data.is_active) THEN Val(habit_data.is_active) ELSE @,
        !.daily_times = IF IsSome(habit_data.daily_times)
                        THEN Val(habit_data.daily_times) ELSE @,
        !.weekly_times = IF IsSome(habit_data.weekly_times)
                         THEN Val(habit_data.weekly_times) ELSE @,
        !.monthly_times = IF IsSome(habit_data.monthly_times)
                          THEN Val(habit_data.monthly_times) ELSE @]

\* CalendarEvent.habit_id == habit_id, CalendarEvent.start_time >= now
IsFutureEventOf(event, habit_id) ==
    event.habit_id = Some(habit_id) /\ event.start_time * TicksPerSecond >= now

update_habit(habit_id, current_user, habit_data) ==
    /\ habitUpdates < MaxHabitUpdates
    /\ habitUpdates' = habitUpdates + 1
    /\ IF habit_id \notin HabitIds \/ habits[habit_id].user_id # current_user
       THEN /\ habitRet' = [op |-> "update_habit", result |-> "not_found"]
            /\ UNCHANGED <<habits, events>>
       ELSE LET habit == UpdatedHabit(habits[habit_id], habit_data)
                kept == SelectSeq(events, LAMBDA e : ~IsFutureEventOf(e, habit_id))
            IN \E autoflush \in {sessionAutoflush} :
               \E occurrences \in {GenerateOccurrences(habit, habit_id, DateOf(now))} :
                  /\ habits' = [habits EXCEPT ![habit_id] = habit]
                  /\ IF ConflictingOccurrences(kept, occurrences, autoflush) = {}
                     THEN /\ events' = kept \o occurrences
                          /\ habitRet' = [op |-> "update_habit", result |-> "ok"]
                     ELSE /\ events' = kept
                          /\ habitRet' = [op |-> "update_habit", result |-> "conflict"]
    /\ UNCHANGED <<now, taskVars, calRet, habitSeq, sessionAutoflush, raceVars, chalVars>>

\* the events of the habit in the table
EventsOf(table, habit_id) == {i \in DOMAIN table : table[i].habit_id = Some(habit_id)}

\* the greatest start_time of the habit's events among the rows lo..hi of the
\* table (order_by(CalendarEvent.start_time.desc()).first()), -1 without one
RECURSIVE LatestStart(_, _, _, _)
LatestStart(table, habit_id, lo, hi) ==
    IF lo > hi THEN -1
    ELSE IF lo = hi
    THEN IF table[lo].habit_id = Some(habit_id) THEN table[lo].start_time ELSE -1
    ELSE CHOOSE latest \in
            {Max(halves[1], halves[2]) :
                halves \in {<<LatestStart(table, habit_id, lo, (lo + hi) \div 2),
                              LatestStart(table, habit_id, ((lo + hi) \div 2) + 1, hi)>>}} :
            TRUE

\* last_event.start_time.date(), last_event being the habit's event with the
\* greatest start_time
LastEventDate(table, habit_id) ==
    LatestStart(table, habit_id, 1, Len(table)) \div SecondsPerDay

\* a maintainer that walks from the date of the last event itself and adds
\* every matching slot without looking for an event at its start_time
ExtendFromUnchecked(table, habit_id, last_event_date, target, autoflush) ==
    LET habit == habits[habit_id]
        slots == SlotsOf(habit)
        picked == SelectSeq(LoopOrder(last_event_date, target, Len(slots)),
                            LAMBDA pair : AddMatches(habit.frequency, pair[1],
                                                     slots[pair[2]]))
    IN [k \in 1..Len(picked) |->
          [event |-> HabitEvent(habit, habit_id, picked[k][1], slots[picked[k][2]]),
           fresh |-> TRUE]]

\* the events _extend_habit_schedule adds after the date of the last event
ExtendFrom(table, habit_id, last_event_date, target, autoflush) ==
    LET habit == habits[habit_id]
        slots == SlotsOf(habit)
        picked == SelectSeq(LoopOrder(last_event_date + 1, target, Len(slots)),
                            LAMBDA pair : AddMatches(habit.frequency, pair[1],
                                                     slots[pair[2]]))
    IN \* each slot is skipped when the habit already has an event at its
       \* start_time (among the added ones too when the session flushes
       \* before a query)
       SelectSeq([k \in 1..Len(picked) |->
                     [event |-> HabitEvent(habit, habit_id, picked[k][1], slots[picked[k][2]]),
                      fresh |-> /\ \A i \in EventsOf(table, habit_id) :
                                      table[i].start_time
                                         # SlotStart(picked[k][1], slots[picked[k][2]])
                                /\ autoflush =>
                                      \A j \in 1..(k - 1) :
                                         SlotStart(picked[j][1], slots[picked[j][2]])
                                            # SlotStart(picked[k][1], slots[picked[k][2]])]],
                 LAMBDA row : row.fresh)

\* the events _extend_habit_schedule adds for the habit: none when it has no
\* event or its last event is at today + the period or later
ExtendHabitSchedule(table, habit_id, today, autoflush) ==
    LET target == today + get_schedule_period(habits[habit_id].frequency)
    IN IF EventsOf(table, habit_id) = {} THEN << >>
       ELSE CHOOSE added \in
               {IF last_event_date >= target THEN << >>
                ELSE [k \in DOMAIN rows |-> rows[k].event] :
                   <<last_event_date, rows>> \in
                      {<<last, IF last >= target THEN << >>
                               ELSE ExtendFrom(table, habit_id, last, target, autoflush)>> :
                          last \in {LastEventDate(table, habit_id)}}} :
               TRUE

\* the habits the maintainer extends
PermanentHabits == {h \in HabitIds : habits[h].is_permanent /\ habits[h].is_active}

\* the table after the maintainer has gone through the habits up to id h
RECURSIVE MaintainedUpTo(_, _, _)
MaintainedUpTo(h, today, autoflush) ==
    IF h = 0 THEN events
    ELSE LET before == MaintainedUpTo(h - 1, today, autoflush)
         IN IF h \in PermanentHabits
            THEN before \o ExtendHabitSchedule(before, h, today, autoflush)
            ELSE before

maintain_habit_schedules ==
    /\ \E autoflush \in {sessionAutoflush} :
       \E after \in {MaintainedUpTo(habitSeq, DateOf(now), autoflush)} :
          /\ events' = SubSeq(after, 1, Len(after))
          /\ habitRet' = [op |-> "maintain_habit_schedules",
                          result |-> Len(after) - Len(events)]
    /\ UNCHANGED <<now, taskVars, calRet, habits, habitSeq, habitUpdates, sessionAutoflush,
                   raceVars, chalVars>>

\* a day passes
HabitClock ==
    /\ DateOf(now) < MaxHabitDays
    /\ now' = now + DayTicks
    /\ UNCHANGED <<taskVars, calVars, chalVars>>

\* time slots of the requests
TimeSlot(hour, minute) == [hour |-> hour, minute |-> minute]
DaySlot(day, hour, minute) == [day |-> day, hour |-> hour, minute |-> minute]

DailySlotLists ==
    {<< >>, <<TimeSlot(9, 0)>>, <<TimeSlot(9, 0), TimeSlot(21, 30)>>,
     <<TimeSlot(9, 0), TimeSlot(9, 15)>>}
WeeklySlotLists ==
    {<<DaySlot(0, 9, 0)>>, <<DaySlot(6, 9, 0)>>, <<DaySlot(3, 9, 0), DaySlot(4, 18, 0)>>}
MonthlySlotLists ==
    {<<DaySlot(1, 9, 0)>>, <<DaySlot(31, 9, 0)>>, <<DaySlot(2, 9, 0), DaySlot(29, 18, 0)>>}
HabitDurations == {5, 30}

HabitData(frequency, times, duration, is_permanent, window) ==
    [name |-> "habit", is_permanent |-> is_permanent, frequency |-> frequency,
     duration_minutes |-> duration,
     daily_times |-> IF frequency = "daily" THEN times ELSE None,
     weekly_times |-> IF frequency = "weekly" THEN times ELSE None,
     monthly_times |-> IF frequency = "monthly" THEN times ELSE None,
     start_date |-> window[1], end_date |-> window[2]]

SlotListsOf(frequency) ==
    IF frequency = "daily" THEN DailySlotLists
    ELSE IF frequency = "weekly" THEN WeeklySlotLists
    ELSE MonthlySlotLists

\* the create requests: permanent habits of every slot list and duration;
\* temporary ones of forty days; daily ones with no dates and with an
\* end_date that is not after the start_date
HabitCreates ==
    UNION {{HabitData(frequency, times, duration, TRUE, <<None, None>>) :
               times \in SlotListsOf(frequency), duration \in HabitDurations}
           \cup {HabitData(frequency, times, 30, FALSE, <<Some(1), Some(40)>>) :
                    times \in SlotListsOf(frequency)} :
           frequency \in {"daily", "weekly", "monthly"}}
    \cup {HabitData("daily", <<TimeSlot(9, 0)>>, 30, FALSE, window) :
             window \in {<<None, None>>, <<Some(1), Some(1)>>}}

\* the update requests: nothing, new daily times, the daily times of the
\* create requests again, a longer duration
NoUpdate ==
    [name |-> None, duration_minutes |-> None, is_active |-> None,
     daily_times |-> None, weekly_times |-> None, monthly_times |-> None]

HabitUpdates ==
    {NoUpdate,
     [NoUpdate EXCEPT !.daily_times = Some(<<TimeSlot(10, 0)>>)],
     [NoUpdate EXCEPT !.daily_times = Some(<<TimeSlot(9, 0)>>)],
     [NoUpdate EXCEPT !.duration_minutes = Some(30)]}

\* an event of a scheduled task
TaskEvent(user_id, start_time, end_time) ==
    [user_id |-> user_id, habit_id |-> None, event_type |-> "task",
     start_time |-> start_time, end_time |-> end_time, task_id |-> None]

\* the calendars a habit is created on: empty; an hour of a task of the user
\* or of another user on the third day from 09:10; five minutes of a task
\* of the user on that day at 09:00
HabitCalendars ==
    {<< >>,
     <<TaskEvent(1, 2 * SecondsPerDay + 33000, 2 * SecondsPerDay + 36600)>>,
     <<TaskEvent(2, 2 * SecondsPerDay + 33000, 2 * SecondsPerDay + 36600)>>,
     <<TaskEvent(1, 2 * SecondsPerDay + 32400, 2 * SecondsPerDay + 32700)>>}

\* the hours of the first day at which the requests start
HabitStartHours == {8, 12}

HabitRequestIds == 1..MaxHabits

InitHabit ==
    /\ now \in {h * SecondsPerHour * TicksPerSecond : h \in HabitStartHours}
    /\ NoTasks
    /\ events \in HabitCalendars
    /\ calRet = NoCalRet
    /\ NoHabitRows
    /\ sessionAutoflush \in BOOLEAN
    /\ NoChallenges

NextHabit ==
    \/ \E habit_data \in HabitCreates : create_habit(1, habit_data)
    \/ \E h \in HabitRequestIds, u \in Users, habit_data \in HabitUpdates :
          update_habit(h, u, habit_data)
    \/ maintain_habit_schedules
    \/ HabitClock

SpecHabit == InitHabit /\ [][NextHabit]_vars

----------------------------------------------------------------------------
(* Activation codes: activate_subscription of app/routers/subscriptions.py   *)
(* with use_activation_code and update_subscription of app/crud.py. The      *)
(* requests of two users run in worker threads, each with its own session;   *)
(* a step is what a request does up to its next commit.                      *)

\* expires_at of the plan: a week, 30 days, 365 days, or none
PlanExpiry(plan_type) ==
    IF plan_type = "weekly" THEN Some(now + 7 * DayTicks)
    ELSE IF plan_type = "monthly" THEN Some(now + 30 * DayTicks)
    ELSE IF plan_type = "yearly" THEN Some(now + 365 * DayTicks)
    ELSE None

\* use_activation_code up to its checks: the row is loaded and found unused,
\* or the request ends with not_found or already_used
ActivateRead(current_user, code) ==
    /\ activateReq[current_user].pc \in {"idle", "done"}
    /\ activateReq' =
          [activateReq EXCEPT ![current_user] =
             IF code \notin DOMAIN activation_codes
             THEN [pc |-> "done", code |-> code, plan_type |-> "", result |-> "not_found"]
             ELSE IF activation_codes[code].is_used
             THEN [pc |-> "done", code |-> code, plan_type |-> "", result |-> "already_used"]
             ELSE [pc |-> "read", code |-> code,
                   plan_type |-> activation_codes[code].plan_type, result |-> "none"]]
    /\ UNCHANGED <<now, taskVars, calVars, challenges, challengeSeq, participants,
                   userStats, chalRet, activation_codes, subscriptions, dbIsolation>>

\* the row has been written by another transaction since this one read it
ChangedSinceRead(code) == activation_codes[code].is_used

\* the row as use_activation_code writes it
UsedCode(row, user_id) ==
    [row EXCEPT !.is_used = TRUE, !.used_by_user_id = Some(user_id), !.used_at = Some(now)]

\* db.commit() of use_activation_code: the UPDATE of the loaded row, by its
\* primary key. A database that serializes on snapshots refuses it when the
\* row has changed since the read, and the request ends with that error;
\* otherwise the row is written again.
ActivateCommit(current_user) ==
    /\ activateReq[current_user].pc = "read"
    /\ LET req == activateReq[current_user] IN
       IF ChangedSinceRead(req.code) /\ dbIsolation = "snapshot"
       THEN /\ activateReq' = [activateReq EXCEPT ![current_user] =
                                  [req EXCEPT !.pc = "done", !.result = "error"]]
            /\ UNCHANGED activation_codes
       ELSE /\ activation_codes' = [activation_codes EXCEPT ![req.code] =
                                       UsedCode(@, current_user)]
            /\ activateReq' = [activateReq EXCEPT ![current_user] =
                                  IF req.plan_type = ""
                                  THEN [req EXCEPT !.pc = "done", !.result = "invalid"]
                                  ELSE [req EXCEPT !.pc = "used"]]
    /\ UNCHANGED <<now, taskVars, calVars, challenges, challengeSeq, participants,
                   userStats, chalRet, subscriptions, dbIsolation>>

\* update_subscription with the plan of the code, and the response
ActivateUpgrade(current_user) ==
    /\ activateReq[current_user].pc = "used"
    /\ subscriptions' =
          [subscriptions EXCEPT ![current_user] =
             [plan |-> Some(activateReq[current_user].plan_type),
              is_premium |-> TRUE,
              expires_at |-> PlanExpiry(activateReq[current_user].plan_type)]]
    /\ activateReq' = [activateReq EXCEPT ![current_user] =
                          [@ EXCEPT !.pc = "done", !.result = "ok"]]
    /\ UNCHANGED <<now, taskVars, calVars, challenges, challengeSeq, participants,
                   userStats, chalRet, activation_codes, dbIsolation>>

\* the codes import_codes.py has put in the table, and the codes presented
ImportedCode(plan_type) ==
    [plan_type |-> plan_type, is_used |-> FALSE, used_by_user_id |-> None, used_at |-> None]
ImportedPlans == {"weekly", "monthly", "yearly", "lifetime"}
PresentedCodes == {"A", "X"}

InitActivate ==
    /\ now = 0
    /\ NoTasks
    /\ events = << >>
    /\ calRet = NoCalRet
    /\ NoHabits
    /\ challenges = [c \in {} |-> 0]
    /\ challengeSeq = 0
    /\ participants = << >>
    /\ userStats = [u \in AllUsers |-> ZeroStats]
    /\ chalRet = [op |-> "none", result |-> "none"]
    /\ \E plan_type \in ImportedPlans :
          activation_codes = [c \in {"A"} |-> ImportedCode(plan_type)]
    /\ subscriptions = [u \in Users |-> NoSubscription]
    /\ activateReq = [u \in Users |-> NoActivation]
    /\ dbIsolation \in {"read_committed", "snapshot"}

NextActivate ==
    \/ \E u \in Users, code \in PresentedCodes : ActivateRead(u, code)
    \/ \E u \in Users : ActivateCommit(u)
    \/ \E u \in Users : ActivateUpgrade(u)

SpecActivate == InitActivate /\ [][NextActivate]_vars

----------------------------------------------------------------------------
(* The retention sweep: app/utils/cleanup_old_habit_events.py *)

\* a sweep that deletes the old events of every type
IsOldEvent(event, today) == event.start_time < today

\* CalendarEvent.event_type == 'habit', CalendarEvent.start_time < today
IsOldHabitEvent(event, today) ==
    event.event_type = "habit" /\ event.start_time < today

\* today: the current day at 00:00:00, in seconds
StartOfToday == DateOf(now) * SecondsPerDay

cleanup_old_habit_events ==
    LET kept == SelectSeq(events, LAMBDA e : ~IsOldHabitEvent(e, StartOfToday)) IN
    /\ events' = kept
    /\ habitRet' = [op |-> "cleanup_old_habit_events", result |-> "ok",
                    deleted_count |-> Len(events) - Len(kept)]
    /\ UNCHANGED <<now, taskVars, calRet, habits, habitSeq, habitUpdates,
                   sessionAutoflush, raceVars, chalVars>>

\* the calendars the sweep runs on: empty; an hour of a task of the user on
\* the first day from 07:00; the same and an hour of a task on the second day
CleanupCalendars ==
    {<< >>,
     <<TaskEvent(1, 25200, 28800)>>,
     <<TaskEvent(1, 25200, 28800), TaskEvent(1, SecondsPerDay + 25200, SecondsPerDay + 28800)>>}

InitCleanup ==
    /\ now \in {h * SecondsPerHour * TicksPerSecond : h \in HabitStartHours}
    /\ NoTasks
    /\ events \in CleanupCalendars
    /\ calRet = NoCalRet
    /\ NoHabitRows
    /\ sessionAutoflush \in BOOLEAN
    /\ NoChallenges

NextCleanup ==
    \/ \E habit_data \in HabitCreates : create_habit(1, habit_data)
    \/ cleanup_old_habit_events
    \/ HabitClock

SpecCleanup == InitCleanup /\ [][NextCleanup]_vars

----------------------------------------------------------------------------
(* The habit requests and the maintainer commit by commit: a request of the  *)
(* router and the scheduler's job run in different threads, each with its    *)
(* own session, and what one has committed is what the other reads.          *)

\* create_habit up to db.commit() of the habit
CreateCommitHabit(current_user, habit_data) ==
    /\ habitReq = NoRequest
    /\ habitSeq < MaxHabits
    /\ IF NameTaken(current_user, habit_data.name)
       THEN /\ habitRet' = [op |-> "create_habit", result |-> "name_taken"]
            /\ UNCHANGED <<habits, habitSeq, habitReq>>
       ELSE IF ~ValidHabitData(habit_data)
       THEN /\ habitRet' = [op |-> "create_habit", result |-> "invalid"]
            /\ UNCHANGED <<habits, habitSeq, habitReq>>
       ELSE /\ habitSeq' = habitSeq + 1
            /\ habits' = WithHabit(habitSeq + 1, NewHabit(current_user, habit_data))
            /\ habitReq' = [pc |-> "created", habit_id |-> habitSeq + 1]
            /\ UNCHANGED habitRet
    /\ UNCHANGED <<now, taskVars, events, calRet, habitUpdates, sessionAutoflush,
                   maintainRun, chalVars>>

\* create_habit from generate_habit_events to its response
CreateGenerate ==
    /\ habitReq.pc = "created"
    /\ \E id \in {habitReq.habit_id} :
       \E occurrences \in {GenerateOccurrences(habits[id], id, DateOf(now))} :
       \E bad \in {ConflictingOccurrences(events, occurrences, sessionAutoflush)} :
          IF bad = {}
          THEN /\ events' = events \o occurrences
               /\ habitRet' = [op |-> "create_habit", result |-> "ok"]
               /\ UNCHANGED habits
          ELSE \E outcome \in FailureOutcomes(sessionAutoflush) :
               /\ habits' = IF outcome = "habit_kept" THEN habits
                            ELSE [h \in HabitIds \ {id} |-> habits[h]]
               /\ events' = IF outcome = "events_kept"
                            THEN events \o SubSeq(occurrences, 1, FirstOf(bad) - 1)
                            ELSE events
               /\ habitRet' = [op |-> "create_habit",
                               result |-> IF outcome = "habit_kept"
                                          THEN "error" ELSE "conflict"]
    /\ habitReq' = NoRequest
    /\ UNCHANGED <<now, taskVars, calRet, habitSeq, habitUpdates, sessionAutoflush,
                   maintainRun, chalVars>>

\* update_habit up to the db.commit() of the habit's fields
UpdateCommitFields(habit_id, current_user, habit_data) ==
    /\ habitReq = NoRequest
    /\ habitUpdates < MaxHabitUpdates
    /\ habitUpdates' = habitUpdates + 1
    /\ IF habit_id \notin HabitIds \/ habits[habit_id].user_id # current_user
       THEN /\ habitRet' = [op |-> "update_habit", result |-> "not_found"]
            /\ UNCHANGED <<habits, habitReq>>
       ELSE /\ habits' = [habits EXCEPT ![habit_id] = UpdatedHabit(@, habit_data)]
            /\ habitReq' = [pc |-> "updated", habit_id |-> habit_id]
            /\ UNCHANGED habitRet
    /\ UNCHANGED <<now, taskVars, events, calRet, habitSeq, sessionAutoflush,
                   maintainRun, chalVars>>

\* update_habit: the delete of the future events and its db.commit()
UpdateDeleteFuture ==
    /\ habitReq.pc = "updated"
    /\ events' = SelectSeq(events, LAMBDA e : ~IsFutureEventOf(e, habitReq.habit_id))
    /\ habitReq' = [habitReq EXCEPT !.pc = "deleted"]
    /\ UNCHANGED <<now, taskVars, calRet, habits, habitSeq, habitUpdates, habitRet,
                   sessionAutoflush, maintainRun, chalVars>>

\* update_habit from generate_habit_events to its response
UpdateGenerate ==
    /\ habitReq.pc = "deleted"
    /\ \E id \in {habitReq.habit_id} :
       \E occurrences \in {GenerateOccurrences(habits[id], id, DateOf(now))} :
          IF ConflictingOccurrences(events, occurrences, sessionAutoflush) = {}
          THEN /\ events' = events \o occurrences
               /\ habitRet' = [op |-> "update_habit", result |-> "ok"]
          ELSE /\ events' = events
               /\ habitRet' = [op |-> "update_habit", result |-> "conflict"]
    /\ habitReq' = NoRequest
    /\ UNCHANGED <<now, taskVars, calRet, habits, habitSeq, habitUpdates,
                   sessionAutoflush, maintainRun, chalVars>>

\* maintain_habit_schedules up to its db.commit(): the queries of the habits,
\* of their last events and of the events at the slots, and the db.add()s
MaintainRead ==
    /\ maintainRun = NoRun
    /\ \E after \in {MaintainedUpTo(habitSeq, DateOf(now), sessionAutoflush)} :
          maintainRun' = [pc |-> "read",
                          added |-> SubSeq(after, Len(events) + 1, Len(after))]
    /\ UNCHANGED <<now, taskVars, events, calRet, habits, habitSeq, habitUpdates, habitRet,
                   sessionAutoflush, habitReq, chalVars>>

\* maintain_habit_schedules: db.commit() and the return
MaintainCommit ==
    /\ maintainRun.pc = "read"
    /\ events' = events \o maintainRun.added
    /\ habitRet' = [op |-> "maintain_habit_schedules", result |-> Len(maintainRun.added)]
    /\ maintainRun' = NoRun
    /\ UNCHANGED <<now, taskVars, calRet, habits, habitSeq, habitUpdates,
                   sessionAutoflush, habitReq, chalVars>>

\* a day passes while nothing is under way
RaceClock ==
    /\ habitReq = NoRequest
    /\ maintainRun = NoRun
    /\ HabitClock

\* the requests of the race: a permanent daily habit at 09:00 of five or of
\* thirty minutes; new daily times
RaceCreates ==
    {HabitData("daily", <<TimeSlot(9, 0)>>, duration, TRUE, <<None, None>>) :
        duration \in HabitDurations}

RaceUpdates ==
    {[NoUpdate EXCEPT !.daily_times = Some(times)] :
        times \in {<<TimeSlot(9, 0)>>, <<TimeSlot(10, 0)>>}}

InitRace ==
    /\ now \in {h * SecondsPerHour * TicksPerSecond : h \in HabitStartHours}
    /\ NoTasks
    /\ events = << >>
    /\ calRet = NoCalRet
    /\ NoHabitRows
    /\ sessionAutoflush \in BOOLEAN
    /\ NoChallenges

NextRace ==
    \/ \E habit_data \in RaceCreates : CreateCommitHabit(1, habit_data)
    \/ CreateGenerate
    \/ \E h \in HabitRequestIds, habit_data \in RaceUpdates :
          UpdateCommitFields(h, 1, habit_data)
    \/ UpdateDeleteFuture
    \/ UpdateGenerate
    \/ MaintainRead
    \/ MaintainCommit
    \/ RaceClock

SpecRace == InitRace /\ [][NextRace]_vars

----------------------------------------------------------------------------
(* The calendar as the requests write it: schedule_task and                  *)
(* update_calendar_event of app/routers/calendar.py, beside create_habit,    *)
(* update_habit and update_task.                                             *)

\* task.estimated_hours or 1.0
HoursOrDefault(milliHours) == IF milliHours = 0 THEN 1000 ELSE milliHours

\* CalendarEvent(user_id, task_id, start_time, end_time)
ScheduledEvent(user_id, task_id, start_time, end_time) ==
    [user_id |-> user_id, habit_id |-> None, event_type |-> "task",
     start_time |-> start_time, end_time |-> end_time, task_id |-> Some(task_id)]

ScheduleResult(task_id, current_user, start_time) ==
    IF task_id \notin TaskIds \/ tasks[task_id].owner_id # current_user THEN "not_found"
    ELSE IF EventsOfTask(task_id) # {} THEN "already_scheduled"
    ELSE ValidateResult(current_user, start_time,
                        start_time + HoursSeconds(HoursOrDefault(tasks[task_id].estimated_hours)),
                        None)

schedule_task(task_id, start_time, current_user) ==
    LET res == ScheduleResult(task_id, current_user, start_time) IN
    /\ events' = IF res = "ok"
                 THEN Append(events,
                        ScheduledEvent(current_user, task_id, start_time,
                          start_time + HoursSeconds(HoursOrDefault(tasks[task_id].estimated_hours))))
                 ELSE events
    /\ calRet' = [NoCalRet EXCEPT !.op = "schedule_task", !.result = res]
    /\ UNCHANGED <<now, taskVars, habitVars, chalVars>>

\* the duration update_calendar_event gives the event: the habit's, the
\* task's estimate, or the one the event has
EventDuration(event) ==
    IF event.event_type = "habit" /\ IsSome(event.habit_id) /\ Val(event.habit_id) \in HabitIds
    THEN habits[Val(event.habit_id)].duration_minutes * SecondsPerMinute
    ELSE IF event.event_type = "task" /\ IsSome(event.task_id) /\ Val(event.task_id) \in TaskIds
    THEN HoursSeconds(HoursOrDefault(tasks[Val(event.task_id)].estimated_hours))
    ELSE event.end_time - event.start_time

MoveResult(event_id, start_time, current_user) ==
    IF event_id \notin EventIds \/ events[event_id].user_id # current_user THEN "not_found"
    ELSE ValidateResult(current_user, start_time,
                        start_time + EventDuration(events[event_id]), Some(event_id))

update_calendar_event(event_id, start_time, current_user) ==
    LET res == MoveResult(event_id, start_time, current_user) IN
    /\ events' = IF res = "ok"
                 THEN [events EXCEPT ![event_id] =
                         [@ EXCEPT !.start_time = start_time,
                                   !.end_time = start_time + EventDuration(events[event_id])]]
                 ELSE events
    /\ calRet' = [NoCalRet EXCEPT !.op = "update_calendar_event", !.result = res]
    /\ UNCHANGED <<now, taskVars, habitVars, chalVars>>

\* the requests: tasks of one hour, starts at 09:00 and 10:00 of the first
\* day, an estimate raised to two hours
CalendarEstimates == {1000}
CalendarStarts == {h * SecondsPerHour : h \in {9, 10}}
CalendarEventIds == 1..MaxEvents
CalendarTaskUpdates == {[NoTaskUpdate EXCEPT !.estimated_hours = Some(2000)]}

InitCalendar ==
    /\ now = 8 * SecondsPerHour * TicksPerSecond
    /\ NoTasks
    /\ events = << >>
    /\ calRet = NoCalRet
    /\ NoHabitRows
    /\ sessionAutoflush \in BOOLEAN
    /\ NoChallenges

NextCalendar ==
    \/ \E m \in CalendarEstimates : create_user_task(1, m, Some(0))
    \/ \E t \in TaskRequestIds, start_time \in CalendarStarts : schedule_task(t, start_time, 1)
    \/ \E e \in CalendarEventIds, start_time \in CalendarStarts :
          update_calendar_event(e, start_time, 1)
    \/ \E t \in TaskRequestIds, task_in \in CalendarTaskUpdates : update_task(t, 1, task_in)
    \/ \E habit_data \in RaceCreates : create_habit(1, habit_data)
    \/ \E h \in HabitRequestIds, habit_data \in RaceUpdates : update_habit(h, 1, habit_data)

SpecCalendar == InitCalendar /\ [][NextCalendar]_vars

----------------------------------------------------------------------------
(* Properties of the task timer *)

Running(i) == tasks[i].is_active /\ IsSome(tasks[i].start_time)

OtherTaskActive(task_id, user_id) ==
    \E j \in TaskIds : /\ j # task_id
                       /\ tasks[j].owner_id = user_id
                       /\ tasks[j].is_active

\* C1: in every reachable state each owner has at most one task with
\* is_active = true and a non-null start_time.
C1_AtMostOneRunningPerOwner ==
    \A i, j \in TaskIds :
        (tasks[i].owner_id = tasks[j].owner_id /\ Running(i) /\ Running(j)) => i = j

\* C2: start_task_timer(T, U) returns an error and changes no task whenever
\* another task of U has is_active = true, whichever task T is targeted.
C2_StartFailsWhileOtherActive ==
    [][\A t \in TaskRequestIds, u \in Users :
          (start_task_timer(t, u) /\ OtherTaskActive(t, u))
              => (taskRet'.result # "ok" /\ tasks' = tasks)]_vars

\* C3: stop_task_timer on an active task, E whole seconds after its start,
\* adds exactly E to time_spent_seconds, sets remaining_time_seconds to
\* max(0, previous remaining - E) and clears is_active and start_time, leaving
\* every other task alone; on a task that is not active (or not the caller's)
\* it fails and changes nothing.
C3_StopAccountsElapsed ==
    [][\A t \in TaskRequestIds, u \in Users :
          stop_task_timer(t, u) =>
             IF t \in TaskIds /\ tasks[t].owner_id = u /\ tasks[t].is_active
             THEN LET E == tasks'[t].time_spent_seconds - tasks[t].time_spent_seconds
                      ticks == now - Val(tasks[t].start_time)
                      prior == tasks[t].remaining_time_seconds
                  IN /\ E >= 0
                     /\ E * TicksPerSecond <= ticks
                     /\ ticks < (E + 1) * TicksPerSecond
                     /\ tasks'[t].remaining_time_seconds =
                            (IF prior - E > 0 THEN prior - E ELSE 0)
                     /\ tasks'[t].is_active = FALSE
                     /\ tasks'[t].start_time = None
                     /\ tasks'[t].status = tasks[t].status
                     /\ \A j \in TaskIds \ {t} : tasks'[j] = tasks[j]
                     /\ taskRet'.result = "ok"
             ELSE tasks' = tasks /\ taskRet'.result = "none"]_vars

\* a stop has just succeeded, one task stopped with time left on its clock
\* and one stopped with its remaining time floored at 0
C3_Witness ==
    /\ taskRet = [op |-> "stop_task_timer", result |-> "ok"]
    /\ \E i \in TaskIds : /\ ~tasks[i].is_active
                          /\ tasks[i].time_spent_seconds > 0
                          /\ tasks[i].remaining_time_seconds > 0
    /\ \E i \in TaskIds : /\ ~tasks[i].is_active
                          /\ tasks[i].time_spent_seconds > tasks[i].initial_duration_seconds
                          /\ tasks[i].remaining_time_seconds = 0

----------------------------------------------------------------------------
(* Properties of the conflict check. calRet holds the proposed interval of *)
(* the last check and what the check answered.                             *)

Checked == calRet.op \in {"validate_schedule_time", "check_habit_conflicts"}

ProposedSeconds == calRet.end_time - calRet.start_time
EventSeconds(i) == events[i].end_time - events[i].start_time

\* event i could be held against the proposed interval at all: same user,
\* not the event being rescheduled
Comparable(i) ==
    /\ events[i].user_id = calRet.user_id
    /\ Some(i) # calRet.exclude_event_id

TouchOrOverlap(i) ==
    events[i].start_time <= calRet.end_time /\ events[i].end_time >= calRet.start_time

StrictOverlap(i) ==
    events[i].start_time < calRet.end_time /\ events[i].end_time > calRet.start_time

C5_ShortEventsExempt ==
    Checked =>
        /\ (60 <= ProposedSeconds /\ ProposedSeconds <= 600)
              => (calRet.result # "conflict" /\ calRet.conflicts = {})
        /\ \A i \in calRet.conflicts :
              EventSeconds(i) > 600 /\ Some(i) # calRet.exclude_event_id

\* a 10-minute proposal was accepted although it lies inside an event of the
\* user that is longer than 10 minutes
C5_Witness ==
    /\ Checked
    /\ calRet.result = "ok"
    /\ ProposedSeconds = 600
    /\ \E i \in EventIds :
          Comparable(i) /\ EventSeconds(i) > 600 /\ StrictOverlap(i)

----------------------------------------------------------------------------
(* Properties of the expiry sweep. A step of process_expired_challenges is  *)
(* one run of the job at clock now.                                         *)

Expired(c) == challenges[c].expires_at <= now

\* the step is a run of the sweep
SweepRun ==
    chalRet'.op = "process_expired_challenges" /\ process_expired_challenges

\* (challenge.duration_minutes + quiz.duration_minutes if quiz) * 60 + 300
WindowSeconds(c) ==
    (challenges[c].duration_minutes
       + (IF challenges[c].is_quiz THEN Val(challenges[c].quiz).duration_minutes ELSE 0)) * 60
    + 300

StartedUnfinished(i) ==
    /\ participants[i].status = "accepted"
    /\ IsSome(participants[i].start_time)
    /\ IsNone(participants[i].end_time)

\* participant row i is accepted, started, unfinished, and its elapsed time
\* is not greater than its budget plus 300 seconds
InsideWindow(i) ==
    /\ StartedUnfinished(i)
    /\ now - Val(participants[i].start_time)
         <= WindowSeconds(participants[i].challenge_id) * TicksPerSecond

HasRunnerInsideWindow(c) == \E i \in ParticipantsOf(c) : InsideWindow(i)

DeletedInStep == ChallengeIds \ DOMAIN challenges'

RowsAfterOf(c) == {i \in DOMAIN participants' : participants'[i].challenge_id = c}

\* C6: a run of the sweep neither deletes nor awards anything for a challenge
\* one of whose participants is accepted, started, unfinished and not past its
\* budget plus 300 seconds: the challenge and its participant rows are still
\* there afterwards, and when every expired challenge has such a participant
\* no user's cups or challenges_count change.
C6_NoSettlementInsideWindow ==
    [][SweepRun =>
         /\ \A c \in ChallengeIds :
               HasRunnerInsideWindow(c) =>
                  /\ c \in DOMAIN challenges'
                  /\ challenges'[c] = challenges[c]
                  /\ Cardinality(RowsAfterOf(c)) = Cardinality(ParticipantsOf(c))
         /\ (\A c \in ExpiredChallenges(now) : HasRunnerInsideWindow(c))
               => UNCHANGED <<challenges, userStats>>]_vars

\* a run has left an expired challenge alone because a started participant is
\* exactly at the end of its window
C6_Witness ==
    /\ chalRet.op = "process_expired_challenges"
    /\ chalRet.result = "deferred"
    /\ \E c \in ChallengeIds :
          /\ Expired(c)
          /\ \E i \in ParticipantsOf(c) :
                /\ InsideWindow(i)
                /\ now - Val(participants[i].start_time) = WindowSeconds(c) * TicksPerSecond

\* C7: under a clock that runs and a sweep that keeps running, every expired
\* challenge is eventually deleted, whether or not its started participants
\* ever finish.
C7_ExpiredEventuallyDeleted ==
    \A c \in ChallengeRequestIds :
        (c \in ChallengeIds /\ Expired(c)) ~> (c \notin ChallengeIds)

\* a run has settled a challenge whose started participant never finished and
\* was force-finished by that run
C7_Witness ==
    /\ chalRet.op = "process_expired_challenges"
    /\ chalRet.result = "settled_after_force_finish"
    /\ ChallengeIds = {}
    /\ \E u \in AllUsers : userStats[u].challenges_count > 0

\* C8 as claimed: a challenge is deleted only from a state where it is expired
\* and every participant that is not rejected is completed.
C8_DeletedOnlyWhenAllCompleted ==
    [][\A c \in DeletedInStep :
          /\ Expired(c)
          /\ \A i \in ParticipantsOf(c) :
                participants[i].status # "rejected"
                   => participants[i].status = "completed"]_vars

\* C8 as amended: a challenge is deleted only by a run of the sweep, and a run
\* deletes exactly the challenges that are expired and have no participant
\* that is accepted, started, unfinished and still within its budget plus 300
\* seconds. Participants still invited, or accepted and never started, do not
\* keep the challenge; started ones past their window are finished by the run.
C8_DeletedWhenExpiredAndNoRunner ==
    [][/\ DeletedInStep # {} => SweepRun
       /\ SweepRun =>
             DeletedInStep = {c \in ChallengeIds : Expired(c) /\ ~HasRunnerInsideWindow(c)}]_vars

\* a run has deleted the only challenge there was, and no participant of it
\* had completed: its creator was still accepted
C8_Witness ==
    /\ chalRet.op = "process_expired_challenges"
    /\ chalRet.result = "settled"
    /\ challengeSeq = 1
    /\ ChallengeIds = {}
    /\ \A u \in AllUsers : userStats[u] = ZeroStats

RECURSIVE SumOver(_, _)
SumOver(S, f) ==
    IF S = {} THEN 0
    ELSE LET u == CHOOSE x \in S : TRUE IN f[u] + SumOver(S \ {u}, f)

GoldGain == [u \in AllUsers |-> userStats'[u].gold_cups - userStats[u].gold_cups]
SilverGain == [u \in AllUsers |-> userStats'[u].silver_cups - userStats[u].silver_cups]
BronzeGain == [u \in AllUsers |-> userStats'[u].bronze_cups - userStats[u].bronze_cups]
CountGain ==
    [u \in AllUsers |-> userStats'[u].challenges_count - userStats[u].challenges_count]

\* the rows a settlement of c counts: completed, or started and unfinished
\* (finished by the run that settles)
PoolOf(c) ==
    {i \in ParticipantsOf(c) : participants[i].status = "completed" \/ StartedUnfinished(i)}

\* C9: cups and counts change only in a step that deletes a challenge, and
\* that step removes the challenge with every participant row of it; the step
\* adds at most one gold, one silver and one bronze cup per deleted challenge
\* and to each user's challenges_count at most the number of its pool rows in
\* the deleted challenges; no reward is ever taken back, a deleted challenge's
\* id is never used again, and no participant row outlives its challenge.
C9_SettlementAtomicOnce ==
    [][/\ \A c \in DeletedInStep : RowsAfterOf(c) = {}
       /\ \A i \in DOMAIN participants' : participants'[i].challenge_id \in DOMAIN challenges'
       /\ challengeSeq' >= challengeSeq
       /\ \A c \in DOMAIN challenges' \ ChallengeIds : c > challengeSeq /\ c <= challengeSeq'
       /\ userStats' # userStats =>
             /\ DeletedInStep # {}
             /\ \A u \in AllUsers :
                   /\ GoldGain[u] >= 0 /\ SilverGain[u] >= 0 /\ BronzeGain[u] >= 0
                   /\ CountGain[u] >= 0
                   /\ CountGain[u] <= Cardinality({i \in ParticipantRows :
                                         /\ participants[i].challenge_id \in DeletedInStep
                                         /\ i \in PoolOf(participants[i].challenge_id)
                                         /\ participants[i].user_id = u})
             /\ SumOver(AllUsers, GoldGain) <= Cardinality(DeletedInStep)
             /\ SumOver(AllUsers, SilverGain) <= Cardinality(DeletedInStep)
             /\ SumOver(AllUsers, BronzeGain) <= Cardinality(DeletedInStep)]_vars

\* a challenge has been settled: it is gone with its rows, and a user holds
\* the gold cup and the count it added
C9_Witness ==
    /\ chalRet.op = "process_expired_challenges"
    /\ chalRet.result \in {"settled", "settled_after_force_finish"}
    /\ challengeSeq = 1
    /\ ChallengeIds = {}
    /\ participants = << >>
    /\ \E u \in AllUsers : userStats[u].gold_cups = 1 /\ userStats[u].challenges_count = 1

\* the ranking key of pool row i at settlement: score (none counts as 0) and
\* seconds taken, a row finished by the run taking its elapsed whole seconds;
\* no seconds, or 0, counts as 999999
PoolScore(i) == IF IsNone(participants[i].score) THEN 0 ELSE Val(participants[i].score)

PoolSeconds(i) ==
    LET seconds == IF StartedUnfinished(i)
                   THEN (now - Val(participants[i].start_time)) \div TicksPerSecond
                   ELSE IF IsNone(participants[i].time_taken_seconds) THEN 0
                   ELSE Val(participants[i].time_taken_seconds)
    IN IF seconds = 0 THEN 999999 ELSE seconds

RanksBefore(c, i, j) ==
    IF challenges[c].is_quiz
    THEN \/ PoolScore(i) > PoolScore(j)
         \/ PoolScore(i) = PoolScore(j) /\ PoolSeconds(i) < PoolSeconds(j)
    ELSE PoolSeconds(i) < PoolSeconds(j)

\* i can stand first in ranking order among the rows S
CanLead(c, S, i) == i \in S /\ \A j \in S : ~RanksBefore(c, j, i)

\* the users table with the awards for the ranking g, s, b over the pool
ExpectedStats(c, g, s, b) ==
    LET pool == PoolOf(c)
        n == Cardinality(pool)
    IN [u \in AllUsers |->
          [gold_cups |-> userStats[u].gold_cups
                           + (IF participants[g].user_id = u THEN 1 ELSE 0),
           silver_cups |-> userStats[u].silver_cups
                             + (IF n >= 10 /\ participants[s].user_id = u /\ s # g
                                THEN 1 ELSE 0),
           bronze_cups |-> userStats[u].bronze_cups
                             + (IF n >= 10 /\ participants[b].user_id = u /\ b # s
                                THEN 1 ELSE 0),
           challenges_count |-> userStats[u].challenges_count
                + Cardinality({i \in pool : participants[i].user_id = u})]]

----------------------------------------------------------------------------
(* Properties of the challenge routes. Participant rows keep their place in *)
(* the table while their challenge exists.                                  *)

\* the step is a successful request of the named route
RouteOk(op) == chalRet'.op = op /\ chalRet'.result = "ok"

\* the rows the step adds to the table
NewRows == (DOMAIN participants') \ ParticipantRows

\* C11: create_challenge enrolls the creator as an accepted participant if and
\* only if the challenge is not a quiz: a new quiz challenge has no row for a
\* creator who was not invited, a new non-quiz challenge has exactly one, with
\* status accepted; every invited friend id gets one row with status invited.
C11_CreatorEnrolledIffNotQuiz ==
    [][\A u \in Users, d \in DurationMinutes, q \in BOOLEAN, l \in LifespanHours,
          qd \in QuizInputs :
          \A inv \in InvitedLists(u) :
             (RouteOk("create_challenge") /\ create_challenge(u, d, q, l, inv, qd)) =>
                LET creatorRows == {i \in NewRows : participants'[i].user_id = u}
                IN /\ q => creatorRows = {}
                   /\ ~q => /\ Cardinality(creatorRows) = 1
                            /\ \A i \in creatorRows : participants'[i].status = "accepted"
                   /\ \A k \in 1..Len(inv) :
                         Cardinality({i \in NewRows :
                                        /\ participants'[i].user_id = inv[k]
                                        /\ participants'[i].status = "invited"}) = 1]_vars

\* the status changes a participant row may make
StatusMoves ==
    {<<"invited", "accepted">>, <<"invited", "rejected">>, <<"accepted", "completed">>}

\* the step is a request of respond_to_invite
RespondStep ==
    /\ chalRet'.op = "respond_to_invite"
    /\ \E c \in ChallengeRequestIds, u \in Users, a \in BOOLEAN : respond_to_invite(c, u, a)

\* the rows whose status the step changes
StatusChanged == {i \in ParticipantRows : participants'[i].status # participants[i].status}

\* C12: a participant's status only moves invited -> accepted, invited ->
\* rejected or accepted -> completed, so rejected and completed are never
\* left; a respond_to_invite that succeeds changes one row that was invited,
\* and one that fails changes no row.
C12_StatusTransitions ==
    [][DeletedInStep = {} =>
         /\ \A i \in StatusChanged :
               <<participants[i].status, participants'[i].status>> \in StatusMoves
         /\ RespondStep =>
               IF chalRet'.result = "ok"
               THEN /\ Cardinality(StatusChanged) = 1
                    /\ \A i \in StatusChanged :
                          /\ participants[i].status = "invited"
                          /\ participants'[i].status \in {"accepted", "rejected"}
               ELSE participants' = participants]_vars

\* a respond_to_invite has been refused for a participant who had responded,
\* while the table holds a rejected and a completed row
C12_Witness ==
    /\ chalRet = [op |-> "respond_to_invite", result |-> "already_responded"]
    /\ \E i, j \in ParticipantRows :
          participants[i].status = "rejected" /\ participants[j].status = "completed"

\* the step is a request of start_challenge / finish_challenge by user u
StartStep(c, u) == chalRet'.op = "start_challenge" /\ start_challenge(c, u)

FinishStep(c, u) ==
    /\ chalRet'.op = "finish_challenge"
    /\ \E sub \in Submissions : finish_challenge(c, u, sub)

\* user u has a row in challenge c, and every such row has started / finished
AlreadyStarted(c, u) ==
    /\ FindParticipant(c, u) # {None}
    /\ \A f \in FindParticipant(c, u) : IsSome(participants[Val(f)].start_time)

AlreadyFinished(c, u) ==
    /\ FindParticipant(c, u) # {None}
    /\ \A f \in FindParticipant(c, u) : IsSome(participants[Val(f)].end_time)

\* status = completed iff end_time is set, and end_time set implies start_time set
TimesConsistent(p) ==
    /\ p.status = "completed" <=> IsSome(p.end_time)
    /\ IsSome(p.end_time) => IsSome(p.start_time)

\* C13: start_time is written only on a row that is accepted and has none;
\* end_time, time_taken_seconds and score are written only on a row that has
\* a start_time and no end_time, by finish_challenge and by the sweep's
\* force-finish alike; a second start or finish is refused and changes
\* nothing; in every state status = completed iff end_time is set, and
\* end_time set implies start_time set.
C13_TimesWrittenOnce ==
    /\ [](\A i \in ParticipantRows : TimesConsistent(participants[i]))
    /\ [][/\ DeletedInStep = {} =>
               \A i \in ParticipantRows :
                  LET p == participants[i]
                      q == participants'[i]
                  IN /\ q.start_time # p.start_time =>
                           /\ IsNone(p.start_time)
                           /\ p.status = "accepted"
                     /\ (\/ q.end_time # p.end_time
                         \/ q.time_taken_seconds # p.time_taken_seconds
                         \/ q.score # p.score) =>
                           /\ IsSome(p.start_time)
                           /\ IsNone(p.end_time)
                           /\ IsSome(q.end_time)
          /\ \A c \in ChallengeRequestIds, u \in Users :
                /\ (AlreadyStarted(c, u) /\ StartStep(c, u)) =>
                      /\ chalRet'.result # "ok"
                      /\ participants' = participants
                /\ (AlreadyFinished(c, u) /\ FinishStep(c, u)) =>
                      /\ chalRet'.result # "ok"
                      /\ participants' = participants]_vars

\* a second finish has been refused, with one row finished by its participant
\* and another that has started and not finished
C13_Witness ==
    /\ chalRet = [op |-> "finish_challenge", result |-> "already_finished"]
    /\ \E i, j \in ParticipantRows :
          /\ participants[i].status = "completed"
          /\ IsSome(participants[j].start_time) /\ IsNone(participants[j].end_time)

\* the rows of challenge c that count for its ranking after the step, and
\* those of them that have completed
ActiveAfter(c) ==
    {i \in RowsAfterOf(c) : participants'[i].status \in {"accepted", "completed"}}

CompletedAfter(c) == {i \in RowsAfterOf(c) : participants'[i].status = "completed"}

\* C14: a successful finish_challenge writes ranks exactly when, after it,
\* every accepted or completed participant of the challenge has completed:
\* then each of the ranks 1..min(3, n) is held by one of the n completed
\* participants, the finisher among the ranked when n <= 3; while an accepted
\* participant has not completed, the finish changes no rank.
C14_RanksWhenAllCompleted ==
    [][\A c \in ChallengeRequestIds, u \in Users :
          (FinishStep(c, u) /\ chalRet'.result = "ok") =>
             IF ActiveAfter(c) = CompletedAfter(c)
             THEN /\ \A k \in 1..3 :
                        k <= Cardinality(CompletedAfter(c)) =>
                           \E i \in CompletedAfter(c) : participants'[i].rank = Some(k)
                  /\ Cardinality(CompletedAfter(c)) <= 3 =>
                        \A i \in CompletedAfter(c) : IsSome(participants'[i].rank)
             ELSE \A i \in ParticipantRows :
                     participants'[i].rank = participants[i].rank]_vars

\* a finish has just ranked two completed participants, the one who finished
\* later being first
C14_Witness ==
    /\ chalRet = [op |-> "finish_challenge", result |-> "ok"]
    /\ \E i, j \in ParticipantRows :
          /\ participants[i].rank = Some(1)
          /\ participants[j].rank = Some(2)
          /\ Val(participants[i].end_time) > Val(participants[j].end_time)

\* sorted_participants[:3] keeps at most three rows
Max3(n) == IF n < 3 THEN n ELSE 3

\* the completed rows of challenge c in the order of the ranking's sort
RankingOrder(c, loadOrder) ==
    LET completed == {i \in ParticipantsOf(c) : participants[i].status = "completed"}
    IN SortedRows(completed,
                  {pair \in completed \X completed :
                     RouterKeyLess(participants, challenges[c].is_quiz, pair[1], pair[2])},
                  loadOrder)

\* the rows among the first three of the sorted completed set of challenge c
FirstThree(c, loadOrder) ==
    {RankingOrder(c, loadOrder)[k] : k \in 1..Max3(Len(RankingOrder(c, loadOrder)))}

\* C15: in every state each of the ranks 1, 2 and 3 is held by at most one
\* participant of a challenge, and a participant who is not among the first
\* three of the sorted completed set has no rank.
C15_RanksUniqueTopThree ==
    \A c \in ChallengeIds :
       /\ \A k \in 1..3 :
             Cardinality({i \in ParticipantsOf(c) : participants[i].rank = Some(k)}) <= 1
       /\ \E loadOrder \in LoadOrders :
             \A i \in ParticipantsOf(c) :
                i \notin FirstThree(c, loadOrder) => IsNone(participants[i].rank)

\* the ranked rows of challenge c
Ranked(c) == {i \in ParticipantsOf(c) : IsSome(participants[i].rank)}

\* C16: in a non-quiz challenge the ranks follow ascending time_taken_seconds:
\* of two ranked participants the one with the strictly smaller time, 0
\* seconds included, has the smaller rank number.
C16_RanksFollowTime ==
    \A c \in ChallengeIds :
       ~challenges[c].is_quiz =>
          \A i, j \in Ranked(c) :
             Val(participants[i].time_taken_seconds) < Val(participants[j].time_taken_seconds)
                => Val(participants[i].rank) < Val(participants[j].rank)

\* the number of questions for which the submission selects a correct option
QuestionsCorrect(questions, submission) ==
    Cardinality({q \in DOMAIN questions :
                   \E a \in DOMAIN submission :
                      /\ submission[a].question_id = q
                      /\ \E o \in DOMAIN questions[q] :
                            questions[q][o] /\ submission[a].selected_option_id = <<q, o>>})

\* the rows the step finishes
FinishedInStep ==
    {i \in ParticipantRows : IsNone(participants[i].end_time) /\ IsSome(participants'[i].end_time)}

\* C17: finishing a quiz challenge records score = 100 * (questions for which
\* the submission selects the correct option) / (total questions), and 0 for
\* a quiz with no question.
C17_ScoreCountsQuestions ==
    [][\A c \in ChallengeRequestIds, u \in Users, sub \in QuizSubmissions :
          (/\ RouteOk("finish_challenge")
           /\ challenges[c].is_quiz
           /\ finish_challenge(c, u, sub)) =>
             LET questions == Val(challenges[c].quiz).questions
             IN \A i \in FinishedInStep :
                   participants'[i].score =
                      Some(IF Len(questions) = 0 THEN 0
                           ELSE (100 * QuestionsCorrect(questions, sub)) \div Len(questions))]_vars

\* C18: every recorded score lies in 0..100, whatever the submission and the
\* quiz layout; participants of non-quiz challenges keep a null score.
C18_ScoreInRange ==
    \A i \in ParticipantRows :
       /\ IsSome(participants[i].score) =>
             Val(participants[i].score) >= 0 /\ Val(participants[i].score) <= 100
       /\ ~challenges[participants[i].challenge_id].is_quiz => IsNone(participants[i].score)

----------------------------------------------------------------------------
(* Properties of habit materialization *)

\* the step is a create_habit request that got past validation
CreateStep == habitRet'.op = "create_habit" /\ habitSeq' = habitSeq + 1

\* the events the step appends to the table
AppendedEvents == SubSeq(events', Len(events) + 1, Len(events'))

\* the intervals [s1, e1] and [s2, e2] share at least a boundary point
Touching(s1, e1, s2, e2) == s1 <= e2 /\ s2 <= e1

\* the first and last date of the window the habit is materialized on when
\* created today
ClaimedWindow(habit_data, today) ==
    IF habit_data.is_permanent
    THEN <<today, today + 90>>
    ELSE <<Val(habit_data.start_date), Val(habit_data.end_date)>>

\* the occurrence of the slot on the date, as an interval in seconds
ClaimedStart(d, slot) == d * 86400 + slot.hour * 3600 + slot.minute * 60
ClaimedEnd(d, slot, duration) == ClaimedStart(d, slot) + duration * 60

\* no event of the user that is longer than 10 minutes touches an occurrence
\* of the daily habit, and no two occurrences of the habit touch each other
\* (or the habit lasts 10 minutes or less, which exempts it)
Undisturbed(user_id, habit_data, today) ==
    \/ habit_data.duration_minutes <= 10
    \/ LET window == ClaimedWindow(habit_data, today)
           slots == habit_data.daily_times
           duration == habit_data.duration_minutes
       IN /\ \A i \in DOMAIN events :
                (events[i].user_id = user_id
                   /\ events[i].end_time - events[i].start_time > 600) =>
                   \A d \in window[1]..window[2], k \in DOMAIN slots :
                      ~Touching(events[i].start_time, events[i].end_time,
                                ClaimedStart(d, slots[k]), ClaimedEnd(d, slots[k], duration))
          /\ \A k, m \in DOMAIN slots, gap \in {0, 1} :
                (k # m \/ gap = 1) =>
                   ~Touching(ClaimedStart(0, slots[k]), ClaimedEnd(0, slots[k], duration),
                             ClaimedStart(gap, slots[m]), ClaimedEnd(gap, slots[m], duration))

\* C19: a valid daily habit created on a calendar that no occurrence conflicts
\* with is created, and materializes exactly one event per daily_times entry
\* for each date of its window, from the slot time to the slot time plus the
\* duration, and nothing else: the window is today..today + 90 inclusive for
\* a permanent habit (91 events for a single slot) and start_date..end_date
\* for a temporary one.
C19_DailyMaterialization ==
    [][\A habit_data \in HabitCreates :
          (/\ CreateStep
           /\ habit_data.frequency = "daily"
           /\ ValidHabitData(habit_data)
           /\ habitRet'.result = "ok" => NewHabit(1, habit_data) = habits'[habitSeq']
           /\ Undisturbed(1, habit_data, DateOf(now))
           /\ create_habit(1, habit_data)) =>
             LET window == ClaimedWindow(habit_data, DateOf(now))
                 slots == habit_data.daily_times
             IN /\ habitRet'.result = "ok"
                /\ SubSeq(events', 1, Len(events)) = events
                /\ Len(AppendedEvents) = (window[2] - window[1] + 1) * Len(slots)
                /\ \A d \in window[1]..window[2], k \in DOMAIN slots :
                      \E i \in DOMAIN AppendedEvents :
                         /\ AppendedEvents[i].start_time = ClaimedStart(d, slots[k])
                         /\ AppendedEvents[i].end_time
                               = ClaimedEnd(d, slots[k], habit_data.duration_minutes)
                         /\ AppendedEvents[i].habit_id = Some(habitSeq')
                         /\ AppendedEvents[i].event_type = "habit"
                         /\ AppendedEvents[i].user_id = 1]_vars

\* a permanent daily habit of one 09:00 slot and 30 minutes has just been
\* created, on the second day, on a calendar that holds a task event: it has
\* 91 events
C19_Witness ==
    /\ habitRet = [op |-> "create_habit", result |-> "ok"]
    /\ DateOf(now) = 1
    /\ 1 \in HabitIds
    /\ habits[1].is_permanent /\ habits[1].frequency = "daily"
    /\ habits[1].daily_times = <<TimeSlot(9, 0)>> /\ habits[1].duration_minutes = 30
    /\ Cardinality(EventsOf(events, 1)) = 91
    /\ Len(events) = 92

\* the claimed rule: a weekly slot of day d fires on the dates whose weekday
\* index (Monday = 0 .. Sunday = 6) is (d - 1) mod 7, written (d + 6) mod 7;
\* a monthly slot on the dates with its day of the month; a daily slot always
ClaimedMatch(frequency, d, slot) ==
    IF frequency = "weekly" THEN d % 7 = (slot.day + 6) % 7
    ELSE IF frequency = "monthly" THEN DayOfMonth(d) = slot.day
    ELSE TRUE

\* the <<start_time, end_time>> of the occurrences the claimed rule selects
\* for the habit on the dates first..last
ClaimedOccurrences(habit, first, last) ==
    {<<ClaimedStart(d, SlotsOf(habit)[k]),
       ClaimedEnd(d, SlotsOf(habit)[k], habit.duration_minutes)>> :
        <<d, k>> \in {pair \in (first..last) \X DOMAIN SlotsOf(habit) :
                        ClaimedMatch(habit.frequency, pair[1], SlotsOf(habit)[pair[2]])}}

\* the <<start_time, end_time>> of the events the step appends
AppendedIntervals ==
    {<<AppendedEvents[i].start_time, AppendedEvents[i].end_time>> :
        i \in DOMAIN AppendedEvents}

\* the dates of the appended events that come from a slot of day d
AppendedDatesOfDay(habit, d) ==
    {AppendedEvents[i].start_time \div 86400 :
        i \in {j \in DOMAIN AppendedEvents :
                 \E k \in DOMAIN SlotsOf(habit) :
                    /\ SlotsOf(habit)[k].day = d
                    /\ AppendedEvents[j].start_time % 86400
                          = SlotsOf(habit)[k].hour * 3600 + SlotsOf(habit)[k].minute * 60}}

\* the step is a successful update_habit / a run of the maintainer
UpdateOkStep ==
    /\ habitUpdates' = habitUpdates + 1
    /\ habitRet' = [op |-> "update_habit", result |-> "ok"]

MaintainStep ==
    habitRet'.op = "maintain_habit_schedules" /\ maintain_habit_schedules

\* the dates the maintainer walks for the habit: from the day after its last
\* event to today + the look-ahead, none when the habit has no event
MaintainedDates(h) ==
    IF h \notin PermanentHabits \/ EventsOf(events, h) = {} THEN {}
    ELSE (LastEventDate(events, h) + 1)
            ..(DateOf(now) + get_schedule_period(habits[h].frequency))

\* C20: a weekly slot of day d materializes on exactly the dates of the window
\* whose weekday index (Monday = 0) is (d - 1) mod 7, so day 0 on Sundays and
\* day 6 on Saturdays, and a monthly slot on the dates with its day of the
\* month; create_habit and update_habit select by this rule on their window
\* and the rolling maintainer by the same rule on the dates it walks.
C20_SameDatesOnBothPaths ==
    [][/\ (CreateStep /\ habitRet'.result = "ok") =>
             LET habit == habits'[habitSeq']
                 window == GenerateWindow(habit, DateOf(now))
             IN /\ AppendedIntervals = ClaimedOccurrences(habit, window[1], window[2])
                /\ Len(AppendedEvents) = Cardinality(AppendedIntervals)
                /\ habit.frequency = "weekly" =>
                      /\ \A d \in AppendedDatesOfDay(habit, 0) : d % 7 = 6
                      /\ \A d \in AppendedDatesOfDay(habit, 6) : d % 7 = 5
       /\ UpdateOkStep =>
             \A h \in HabitIds :
                habits'[h] # habits[h] \/ Len(events') # Len(events) \/ events' # events =>
                   LET window == GenerateWindow(habits'[h], DateOf(now))
                       kept == Cardinality({i \in DOMAIN events :
                                              ~IsFutureEventOf(events[i], h)})
                   IN {<<events'[i].start_time, events'[i].end_time>> :
                          i \in (kept + 1)..Len(events')}
                         = ClaimedOccurrences(habits'[h], window[1], window[2])
       /\ MaintainStep =>
             /\ SubSeq(events', 1, Len(events)) = events
             /\ \A h \in HabitIds :
                   {<<AppendedEvents[i].start_time, AppendedEvents[i].end_time>> :
                       i \in {j \in DOMAIN AppendedEvents :
                                AppendedEvents[j].habit_id = Some(h)}}
                      = IF MaintainedDates(h) = {} THEN {}
                        ELSE ClaimedOccurrences(habits[h], LastEventDate(events, h) + 1,
                                                DateOf(now)
                                                   + get_schedule_period(habits[h].frequency))]_vars

\* the maintainer has just added an event to a weekly habit whose create
\* request had materialized it through the year
C20_Witness ==
    /\ habitRet.op = "maintain_habit_schedules"
    /\ habitRet.result >= 1
    /\ habitUpdates = 0
    /\ 1 \in HabitIds
    /\ habits[1].frequency = "weekly"
    /\ Cardinality(EventsOf(events, 1)) > 100

\* the step is a create_habit request: it records its result, and numbers
\* the habit when it gets as far as adding it
CreateRequestStep ==
    /\ habitRet'.op = "create_habit"
    /\ habitSeq' # habitSeq \/ habitRet' # habitRet

\* C21: a create_habit request that fails, on validation or on a conflicting
\* occurrence, leaves no new habit and no new calendar event, and every
\* existing event as it was.
C21_FailedCreateLeavesNothing ==
    [][(CreateRequestStep /\ habitRet'.result # "ok") =>
          /\ habits' = habits
          /\ events' = events]_vars

\* the step is an update_habit request that found the habit
UpdateStepOf(h) ==
    /\ habitUpdates' = habitUpdates + 1
    /\ habitRet'.op = "update_habit"
    /\ habitRet'.result # "not_found"
    /\ h \in HabitIds
    /\ habits'[h].user_id = 1

\* the habit's events of the table that start before now, in table order
PastEventsOf(table, h) ==
    SelectSeq(table, LAMBDA e : e.habit_id = Some(h) /\ e.start_time * TicksPerSecond < now)

\* the habit's events of the table that start at now or later, as a set
FutureEventsOf(table, h) ==
    {table[i] : i \in {j \in DOMAIN table :
                         /\ table[j].habit_id = Some(h)
                         /\ table[j].start_time * TicksPerSecond >= now}}

\* the occurrences of the rule that start at now or later
FutureOccurrences(habit, h) ==
    LET occurrences == GenerateOccurrences(habit, h, DateOf(now))
    IN {occurrences[k] : k \in {j \in DOMAIN occurrences :
                                   occurrences[j].start_time * TicksPerSecond >= now}}

\* an occurrence of the rule touches a long event of the user that is not
\* an event of the habit
ConflictsWithOthers(habit, h) ==
    LET occurrences == GenerateOccurrences(habit, h, DateOf(now))
        others == SelectSeq(events, LAMBDA e : e.habit_id # Some(h))
    IN \E k \in DOMAIN occurrences :
          ConflictIn(others, habit.user_id, occurrences[k].start_time,
                     occurrences[k].end_time)

\* C22: a successful update_habit replaces the habit's events that start at
\* now or later by the future occurrences of the new rule and leaves its
\* events that start before now exactly as they were, none deleted, changed
\* or duplicated; and the update succeeds whenever the new occurrences
\* conflict with no event of another owner.
C22_UpdateRegeneratesFutureOnly ==
    [][\A h \in HabitRequestIds :
          UpdateStepOf(h) =>
             /\ habitRet'.result = "ok" =>
                   /\ PastEventsOf(events', h) = PastEventsOf(events, h)
                   /\ FutureEventsOf(events', h) = FutureOccurrences(habits'[h], h)
             /\ ~ConflictsWithOthers(habits'[h], h) => habitRet'.result = "ok"]_vars

\* the rows of the table that are events of the habit, in table order
EventRowsOf(table, h) == SelectSeq(table, LAMBDA e : e.habit_id = Some(h))

\* C23: an update_habit request whose regeneration hits a conflict changes
\* nothing: the habit's stored fields and all its calendar events, past and
\* future, are the same after the rejected request as before it.
C23_RejectedUpdateChangesNothing ==
    [][\A h \in HabitRequestIds :
          (UpdateStepOf(h) /\ habitRet'.result = "conflict") =>
             /\ habits'[h] = habits[h]
             /\ EventRowsOf(events', h) = EventRowsOf(events, h)]_vars

\* the number of events a run of the maintainer adds to the table as it is
MaintainerWouldAdd ==
    Len(MaintainedUpTo(habitSeq, DateOf(now), sessionAutoflush)) - Len(events)

\* the step is a run of the maintainer: no other step records its result
MaintainRunStep ==
    /\ habitRet'.op = "maintain_habit_schedules"
    /\ now' = now
    /\ habitRet' # habitRet \/ events' # events

\* C24: a run of maintain_habit_schedules that directly follows another run
\* on the same day, with no habit created or changed in between, adds no
\* calendar event, whatever the frequency of the habits: in the state a run
\* leaves, a run of the maintainer adds nothing.
C24_MaintainerIdempotent ==
    [][MaintainRunStep => MaintainerWouldAdd' = 0]_vars

\* the maintainer has run twice on the second day on a daily habit created
\* the day before: the first run added the event of day 91, the second none
C24_Witness ==
    /\ habitRet = [op |-> "maintain_habit_schedules", result |-> 0]
    /\ DateOf(now) = 1
    /\ habitUpdates = 0
    /\ 1 \in HabitIds
    /\ habits[1].frequency = "daily"
    /\ habits[1].is_permanent
    /\ \E i, j \in EventsOf(events, 1) :
          /\ events[i].start_time \div SecondsPerDay = 0
          /\ events[j].start_time \div SecondsPerDay = 1 + DailyLookaheadDays

\* the <<start_time, end_time>> of the habit's events in the table
IntervalsOf(table, h) ==
    {<<table[i].start_time, table[i].end_time>> : i \in EventsOf(table, h)}

\* C25: after every run of the maintainer, every active permanent habit has
\* all the occurrences of its rule from tomorrow to today + its look-ahead
\* (daily 90, weekly 365, monthly 1095 days) on the calendar, whatever state
\* the habit was in, a habit without any calendar event included.
C25_HorizonKept ==
    [][MaintainRunStep =>
          \A h \in HabitRequestIds :
             (h \in HabitIds /\ habits'[h].is_permanent /\ habits'[h].is_active) =>
                ClaimedOccurrences(habits'[h], DateOf(now) + 1,
                                   DateOf(now) + LookaheadDays(habits'[h].frequency))
                   \subseteq IntervalsOf(events', h)]_vars

\* no two calendar events of one habit on a day after today start at the same
\* time (requests served one after the other duplicate occurrences of today
\* at most)
NoOccurrenceTwice ==
    \A i, j \in DOMAIN events :
        (/\ i < j
         /\ IsSome(events[i].habit_id)
         /\ events[i].habit_id = events[j].habit_id
         /\ events[i].start_time = events[j].start_time)
           => events[i].start_time \div SecondsPerDay <= DateOf(now)

\* the regeneration of an update is rejected only when it also conflicts
\* without the events the habit got after the update deleted its future ones
RejectedWithoutMaintainer ==
    (habitReq.pc = "deleted" /\ habitRet'.op = "update_habit"
        /\ habitRet'.result = "conflict" /\ habitReq' = NoRequest) =>
       ConflictingOccurrences(
           SelectSeq(events, LAMBDA e : ~IsFutureEventOf(e, habitReq.habit_id)),
           GenerateOccurrences(habits[habitReq.habit_id], habitReq.habit_id, DateOf(now)),
           sessionAutoflush) # {}

\* C26: a run of the maintainer that interleaves, commit by commit, with a
\* create_habit or update_habit request for the same habit leaves the habit
\* the calendar events that the two leave when one runs after the other: in
\* particular no occurrence is on the calendar twice, and the request is not
\* rejected because of events the maintainer inserted in between.
C26_MaintainerRaceIsSerial ==
    []NoOccurrenceTwice /\ [][RejectedWithoutMaintainer]_vars

----------------------------------------------------------------------------
(* Properties of the task lifecycle *)

\* the step is a run of end_of_day_cleanup
CleanupStep == taskRet'.op = "end_of_day_cleanup" /\ end_of_day_cleanup

\* C27: after end_of_day_cleanup no task has status TO_DO or IN_PROGRESS:
\* the idle ones have become INCOMPLETE, and the running ones have been
\* stopped (time accounted, is_active and start_time cleared) and marked
\* INCOMPLETE as well.
C27_CleanupLeavesNoneOpen ==
    [][CleanupStep =>
          \A i \in TaskIds :
             /\ tasks'[i].status \notin {"TO_DO", "IN_PROGRESS"}
             /\ tasks[i].status \in {"TO_DO", "IN_PROGRESS"} =>
                   /\ tasks'[i].status = "INCOMPLETE"
                   /\ ~tasks'[i].is_active
                   /\ tasks'[i].start_time = None
                   /\ tasks[i].is_active =>
                         tasks'[i].time_spent_seconds
                            = tasks[i].time_spent_seconds + ElapsedSeconds(tasks[i])]_vars

\* C28: COMPLETED is terminal: no operation changes the status of a task
\* that is COMPLETED, and start_task_timer on such a task fails.
C28_CompletedIsTerminal ==
    [][/\ \A i \in TaskIds :
             tasks[i].status = "COMPLETED" => tasks'[i].status = "COMPLETED"
       /\ \A t \in TaskIds, u \in Users :
             (/\ tasks[t].status = "COMPLETED"
              /\ tasks[t].owner_id = u
              /\ taskRet'.op = "start_task_timer"
              /\ start_task_timer(t, u)) => taskRet'.result # "ok"]_vars

\* the step is a start_task_timer request of the owner for the task
StartTimerStep(t, u) ==
    /\ taskRet'.op = "start_task_timer"
    /\ tasks[t].owner_id = u
    /\ start_task_timer(t, u)

\* C29: start_task_timer on a task whose timer is running is rejected and
\* leaves start_time, remaining_time_seconds and time_spent_seconds as they
\* were, so that no running time is lost.
C29_RunningTaskNotRestarted ==
    [][\A t \in TaskIds, u \in Users :
          (tasks[t].is_active /\ StartTimerStep(t, u)) =>
             /\ taskRet'.result # "ok"
             /\ tasks'[t].start_time = tasks[t].start_time
             /\ tasks'[t].remaining_time_seconds = tasks[t].remaining_time_seconds
             /\ tasks'[t].time_spent_seconds = tasks[t].time_spent_seconds]_vars

\* C30: every successful start_task_timer seeds the remaining time with 3600 s
\* when the status was INCOMPLETE, whatever the estimate; otherwise with
\* initial_duration_seconds when the status was TO_DO or nothing remained;
\* otherwise it keeps remaining_time_seconds. The task becomes active and
\* IN_PROGRESS.
C30_RemainingTimeSeed ==
    [][\A t \in TaskIds, u \in Users :
          (StartTimerStep(t, u) /\ taskRet'.result = "ok") =>
             /\ tasks'[t].remaining_time_seconds =
                   IF tasks[t].status = "INCOMPLETE" THEN 3600
                   ELSE IF \/ tasks[t].status = "TO_DO"
                           \/ tasks[t].remaining_time_seconds <= 0
                        THEN tasks[t].initial_duration_seconds
                        ELSE tasks[t].remaining_time_seconds
             /\ tasks'[t].is_active = TRUE
             /\ tasks'[t].status = "IN_PROGRESS"]_vars

\* a task that ran for a part of its estimate, was stopped, set to TO_DO and
\* started again runs with its whole estimate; another one runs with the
\* hour given after INCOMPLETE
C30_Witness ==
    \E i \in TaskIds :
          /\ taskRet = [op |-> "start_task_timer", result |-> "ok"]
          /\ tasks[i].is_active
          /\ tasks[i].status = "IN_PROGRESS"
          /\ tasks[i].time_spent_seconds > 0
          /\ tasks[i].time_spent_seconds < tasks[i].initial_duration_seconds
          /\ tasks[i].remaining_time_seconds = tasks[i].initial_duration_seconds
          /\ tasks[i].start_time = Some(now)
          /\ \E j \in TaskIds :
                /\ tasks[j].status = "IN_PROGRESS"
                /\ ~tasks[j].is_active
                /\ tasks[j].remaining_time_seconds = 3600
                /\ tasks[j].initial_duration_seconds # 3600

\* the statuses of the task lifecycle
TaskStatuses == {"TO_DO", "IN_PROGRESS", "COMPLETED", "INCOMPLETE"}

\* C31: a task created through create_user_task starts in status TO_DO, not
\* active, with no time spent and with remaining_time_seconds =
\* initial_duration_seconds = estimated_hours * 3600, and the status of a
\* task is always one of TO_DO, IN_PROGRESS, COMPLETED, INCOMPLETE.
C31_CreatedTaskIsToDo ==
    /\ [](\A i \in TaskIds : tasks[i].status \in TaskStatuses)
    /\ [][(taskRet'.op = "create_user_task" /\ Len(tasks') = Len(tasks) + 1) =>
             \E m \in EstimatedMilliHours :
                /\ tasks'[Len(tasks')].status = "TO_DO"
                /\ ~tasks'[Len(tasks')].is_active
                /\ tasks'[Len(tasks')].time_spent_seconds = 0
                /\ tasks'[Len(tasks')].initial_duration_seconds = (m * 3600) \div 1000
                /\ tasks'[Len(tasks')].remaining_time_seconds = (m * 3600) \div 1000]_vars

\* C32: the completed flag mirrors the status: a task has completed = TRUE
\* exactly when its status is COMPLETED, in every state reached through
\* create, start, stop, complete, mark-incomplete, update_task and the
\* end-of-day sweep.
C32_CompletedMirrorsStatus ==
    \A i \in TaskIds : tasks[i].completed <=> (tasks[i].status = "COMPLETED")

\* the step is a complete_task request of the owner for the task
CompleteStep(t, u) ==
    /\ taskRet'.op = "complete_task"
    /\ tasks[t].owner_id = u
    /\ complete_task(t, u)

\* C33: complete_task has no timer side effects: it sets status = COMPLETED
\* and completed = TRUE and leaves is_active, start_time,
\* remaining_time_seconds and time_spent_seconds as they were, so that a
\* running task stays running after its completion.
C33_CompleteLeavesTimer ==
    [][\A t \in TaskIds, u \in Users :
          CompleteStep(t, u) =>
             /\ taskRet'.result = "ok"
             /\ tasks'[t].status = "COMPLETED"
             /\ tasks'[t].completed = TRUE
             /\ tasks'[t].is_active = tasks[t].is_active
             /\ tasks'[t].start_time = tasks[t].start_time
             /\ tasks'[t].remaining_time_seconds = tasks[t].remaining_time_seconds
             /\ tasks'[t].time_spent_seconds = tasks[t].time_spent_seconds
             /\ \A i \in TaskIds \ {t} : tasks'[i] = tasks[i]]_vars

\* a task completed while its timer was running, the clock having advanced
\* since the start: it is COMPLETED and still running
C33_Witness ==
    /\ taskRet = [op |-> "complete_task", result |-> "ok"]
    /\ \E i \in TaskIds :
          /\ tasks[i].status = "COMPLETED"
          /\ tasks[i].completed
          /\ tasks[i].is_active
          /\ IsSome(tasks[i].start_time)
          /\ Val(tasks[i].start_time) < now

\* another task of the owner is running
OtherTaskRunning(t, u) ==
    \E i \in TaskIds \ {t} : tasks[i].owner_id = u /\ tasks[i].is_active

\* C36: start_task_timer on an existing task that is not COMPLETED succeeds
\* whenever no other task of the owner is running: the error "another task
\* is already running" is returned only when another task of the owner has
\* is_active = TRUE, never merely because another uncompleted task is due
\* today.
C36_StartFailsOnlyWhenOtherRuns ==
    [][\A t \in TaskIds, u \in Users :
          StartTimerStep(t, u) =>
             /\ (tasks[t].status # "COMPLETED" /\ ~OtherTaskRunning(t, u)) =>
                    taskRet'.result = "ok"
             /\ taskRet'.result = "error_running" => OtherTaskRunning(t, u)]_vars

----------------------------------------------------------------------------
(* Properties of the habit rows and of the calendar *)

\* C34: every habit has exactly one of daily_times, weekly_times and
\* monthly_times populated, the one of its frequency; create_habit and every
\* update_habit keep it so.
C34_OneSlotListPerFrequency ==
    \A h \in HabitIds :
        /\ (habits[h].daily_times # << >>) <=> (habits[h].frequency = "daily")
        /\ (habits[h].weekly_times # << >>) <=> (habits[h].frequency = "weekly")
        /\ (habits[h].monthly_times # << >>) <=> (habits[h].frequency = "monthly")

\* the step is a run of cleanup_old_habit_events
SweepStep == habitRet'.op = "cleanup_old_habit_events" /\ cleanup_old_habit_events

\* the row is a habit event that starts before today's midnight
StartsBeforeToday(event) ==
    event.event_type = "habit" /\ event.start_time * TicksPerSecond < DateOf(now) * DayTicks

\* C35: cleanup_old_habit_events deletes exactly the calendar events of type
\* habit whose start_time is before the start of the current day; every task
\* event, every habit event that starts today or later and every habit row
\* are left as they were.
C35_CleanupDeletesOldHabitEvents ==
    [][SweepStep =>
          /\ events' = SelectSeq(events, LAMBDA e : ~StartsBeforeToday(e))
          /\ \A i \in DOMAIN events' : ~StartsBeforeToday(events'[i])
          /\ \A i \in DOMAIN events :
                (events[i].event_type = "task" \/ ~StartsBeforeToday(events[i])) =>
                   \E j \in DOMAIN events' : events'[j] = events[i]
          /\ habits' = habits]_vars

\* the sweep has deleted habit events, a task event of an earlier day is still
\* on the calendar, and so are the habit's events from today on
C35_Witness ==
    /\ habitRet.op = "cleanup_old_habit_events"
    /\ habitRet.deleted_count > 0
    /\ \E i \in DOMAIN events :
          events[i].event_type = "task" /\ events[i].start_time < StartOfToday
    /\ \E i \in DOMAIN events :
          /\ events[i].event_type = "habit"
          /\ events[i].start_time \div SecondsPerDay = DateOf(now)
    /\ HabitIds # {}

\* the two rows are events of one user, both longer than 10 minutes, that
\* share more than a boundary point
LongEventsOverlap(a, b) ==
    /\ a.user_id = b.user_id
    /\ a.end_time - a.start_time > 600
    /\ b.end_time - b.start_time > 600
    /\ a.start_time < b.end_time
    /\ b.start_time < a.end_time

\* C37: after any sequence of schedule_task, update_calendar_event,
\* create_habit, update_habit and update_task requests, served one after the
\* other, no user has two calendar events, both longer than 10 minutes,
\* whose intervals strictly overlap.
C37_NoLongEventsOverlap ==
    \A i, j \in DOMAIN events : i # j => ~LongEventsOverlap(events[i], events[j])

\* C38: after any sequence of create_habit, update_habit and
\* maintain_habit_schedules, no habit has two calendar events with the same
\* start_time, whatever its duration.
C38_NoHabitEventTwice ==
    \A i, j \in DOMAIN events :
        (i < j /\ IsSome(events[i].habit_id) /\ events[i].habit_id = events[j].habit_id)
           => events[i].start_time # events[j].start_time

----------------------------------------------------------------------------
(* Properties of the start of a challenge and of the activation codes *)

\* C39: once a challenge has expired (expires_at <= now), start_challenge
\* records no start_time for a participant of it: who accepted but has not
\* started can no longer start, and the started participants of the
\* challenge stay the same from expiry onward.
C39_NoStartAfterExpiry ==
    [][chalRet'.op = "start_challenge" =>
          \A i \in DOMAIN participants \cap DOMAIN participants' :
             (/\ IsNone(participants[i].start_time)
              /\ IsSome(participants'[i].start_time)
              /\ participants[i].challenge_id \in ChallengeIds) =>
                challenges[participants[i].challenge_id].expires_at > now]_vars

\* the users a code has upgraded, the codes that are used
PremiumUsers == {u \in Users : subscriptions[u].is_premium}
UsedCodes == {c \in DOMAIN activation_codes : activation_codes[c].is_used}

\* C40: redeeming an activation code is atomic: however two
\* activate_subscription requests with the same unused code interleave, at
\* most one succeeds and upgrades its user, and the other is answered
\* ACTIVATION_CODE_ALREADY_USED.
C40_CodeRedeemedOnce ==
    /\ Cardinality(PremiumUsers) <= Cardinality(UsedCodes)
    /\ \A u \in Users :
          (activateReq[u].pc = "done" /\ activateReq[u].code \in DOMAIN activation_codes)
             => activateReq[u].result \in {"ok", "already_used"}

====
